---- MODULE Spec2Model ----
(***************************************************************************)
(* Google Maps MCP server: the tool dispatcher (server.py), the tool base  *)
(* class with its retrying invoker and response envelope (tools/base.py),  *)
(* the eleven tools' execute methods, the route-safety scoring             *)
(* (tools/safety.py) and the traffic analysis (tools/traffic.py).          *)
(*                                                                         *)
(* Spec follows one invocation at a time, ConcSpec several invocations as  *)
(* tasks of one event loop; FormatSpec, ScoreSpec and TrafficSpec apply    *)
(* one pure computation to every input.  TraceSpec follows one run of the  *)
(* fleet example's GPSTraceAnalyzer (examples/gps_trace_analyzer.py),      *)
(* ReportSpec applies its score and recommendations to every list of       *)
(* violations, and RoadsSpec hands one speed_limits response to the two    *)
(* tools that read such a response.                                        *)
(*                                                                         *)
(* Strings that the program builds by formatting are sequences of tokens:  *)
(* the empty string is << >>.  Float scores are integers in hundredths.    *)
(***************************************************************************)
EXTENDS Integers, Sequences, FiniteSets, TLC

VARIABLES
    tools,      \* GoogleMapsMCPServer.tools: the registered tool names, in order
    pc,         \* position of the invocation: idle, attempt, backoff, done
    name,       \* call_tool's name argument
    arguments,  \* call_tool's arguments: argument name -> kind of value given
    hour,       \* departure_time.hour of the invocation
    call,       \* index of the external call in progress within execute
    attempt,    \* tenacity's attempt_number of the call in progress
    outcomes,   \* exception type of each failed attempt of the call in progress
    waits,      \* backoff waits (seconds) slept so far in the call in progress
    log,        \* finished external calls of this invocation, in order
    result,     \* what call_tool returned to the protocol layer
    fmt,        \* one application of BaseTool._format_response
    score,      \* one application of the route-safety scoring
    traffic,    \* one application of the traffic-conditions analysis
    tasks,      \* the concurrent invocations of call_tool on one event loop
    gps,        \* one run of GPSTraceAnalyzer.analyze_trace
    report,     \* one application of the compliance score and recommendations
    roads       \* one speed_limits response read by both tools that use it

vars == <<tools, pc, name, arguments, hour, call, attempt, outcomes, waits, log,
          result, fmt, score, traffic, tasks, gps, report, roads>>

----------------------------------------------------------------------------
(* Values *)

\* Python's None where a str is expected (distinct from every message)
None == <<"<None>">>

\* Python's None as a JSON value
Null == [kind |-> "null"]

\* a key that a dict does not hold (duration_in_traffic, speedLimit)
Absent == -1

NoExc == [type |-> "none", msg |-> None]

RECURSIVE Pow2(_)
Pow2(n) == IF n <= 0 THEN 1 ELSE 2 * Pow2(n - 1)

Min(a, b) == IF a <= b THEN a ELSE b
Max(a, b) == IF a >= b THEN a ELSE b

RECURSIVE MaxOf(_)
MaxOf(s) == IF Len(s) = 1 THEN s[1] ELSE Max(s[1], MaxOf(Tail(s)))

----------------------------------------------------------------------------
(* The registry *)

\* GoogleMapsMCPServer.__init__: self.tools
ServerTools ==
    << "search_places", "get_place_details", "get_directions", "geocode_address",
       "reverse_geocode", "calculate_distance_matrix", "snap_to_roads",
       "get_speed_limits", "get_traffic_conditions",
       "calculate_route_safety_factors", "get_route_elevation_gain" >>

ToolNames == { ServerTools[i] : i \in DOMAIN ServerTools }

\* call_tool: next((t for t in self.tools if t.name == name), None)
Lookup(reg, n) ==
    IF \E i \in DOMAIN reg : reg[i] = n
    THEN reg[CHOOSE i \in DOMAIN reg : reg[i] = n /\ \A j \in 1..(i-1) : reg[j] # n]
    ELSE "<no tool>"

----------------------------------------------------------------------------
(* The response envelope *)

\* Python truthiness of the error argument (str | None)
Truthy(error) == error # None /\ error # << >>

\* BaseTool._format_response
FormatResponse(tool, data, status, error) ==
    IF Truthy(error)
    THEN [status |-> status, tool |-> tool, error |-> error]
    ELSE [status |-> status, tool |-> tool, data |-> data]

HasKey(env, k) == k \in DOMAIN env

----------------------------------------------------------------------------
(* Arguments and what each execute does with them before its first call *)

\* kinds of value an argument can have: a usable value, no such key, a value
\* of the wrong JSON type (a number), a value of the right type that the API
\* cannot use (unparsable text, an empty string, a list of the wrong objects)
ArgKinds == {"ok", "missing", "wrongtype", "badformat"}

\* input_schema "required", in the order execute subscripts arguments
RequiredArgs(t) ==
    CASE t = "search_places"                  -> <<"location", "keyword">>
      [] t = "get_place_details"              -> <<"place_id">>
      [] t = "get_directions"                 -> <<"origin", "destination">>
      [] t = "geocode_address"                -> <<"address">>
      [] t = "reverse_geocode"                -> <<"lat", "lng">>
      [] t = "calculate_distance_matrix"      -> <<"origins", "destinations">>
      [] t = "snap_to_roads"                  -> <<"path">>
      [] t = "get_speed_limits"               -> <<"place_ids">>
      [] t = "get_traffic_conditions"         -> <<"origin", "destination">>
      [] t = "calculate_route_safety_factors" -> <<"origin", "destination">>
      [] t = "get_route_elevation_gain"       -> <<"origin", "destination">>
      [] OTHER                                -> << >>

\* input_schema "properties"
SchemaProperties(t) ==
    CASE t = "search_places"                  -> {"location", "keyword", "radius", "type"}
      [] t = "get_place_details"              -> {"place_id", "fields"}
      [] t = "get_directions"                 ->
            {"origin", "destination", "mode", "departure_time", "alternatives",
             "avoid", "traffic_model"}
      [] t = "geocode_address"                -> {"address", "components", "region"}
      [] t = "reverse_geocode"                -> {"lat", "lng", "result_type"}
      [] t = "calculate_distance_matrix"      ->
            {"origins", "destinations", "mode", "avoid", "units"}
      [] t = "snap_to_roads"                  -> {"path", "interpolate"}
      [] t = "get_speed_limits"               -> {"place_ids", "units"}
      [] t = "get_traffic_conditions"         ->
            {"origin", "destination", "departure_time", "traffic_model"}
      [] t = "calculate_route_safety_factors" ->
            {"origin", "destination", "departure_time", "traffic_model"}
      [] t = "get_route_elevation_gain"       -> {"origin", "destination", "mode", "samples"}
      [] OTHER                                -> {}

\* BaseTool.to_mcp_tool: the descriptor of a tool
ToMcpTool(t) ==
    [name |-> t, properties |-> SchemaProperties(t), required |-> RequiredArgs(t)]

\* the tools that parse an optional departure_time with datetime.fromisoformat
TakesDepartureTime(t) ==
    t \in {"get_directions", "get_traffic_conditions", "calculate_route_safety_factors"}

ArgNames(t) ==
    { RequiredArgs(t)[i] : i \in DOMAIN RequiredArgs(t) }
        \cup (IF TakesDepartureTime(t) THEN {"departure_time"} ELSE {})

\* the code between the subscripts and the external call that raises on a
\* malformed required argument: location.split/float (places.py), len(origins)
\* and len(destinations) (distance.py), the path comprehension (roads.py),
\* len(place_ids) (roads.py); no other tool looks at the value
LocallyParsed(t, arg, kind) ==
    \/ t = "search_places" /\ arg = "location" /\ kind \in {"wrongtype", "badformat"}
    \/ t = "calculate_distance_matrix" /\ kind = "wrongtype"
    \/ t = "snap_to_roads" /\ kind \in {"wrongtype", "badformat"}
    \/ t = "get_speed_limits" /\ kind = "wrongtype"

KeyError(k) == [type |-> "KeyError", msg |-> <<"'", k, "'">>]
ValueError == [type |-> "ValueError", msg |-> <<"Invalid isoformat string">>]
AttributeError == [type |-> "AttributeError", msg |-> <<"object has no attribute">>]
TypeError == [type |-> "TypeError", msg |-> <<"object of unexpected type">>]

\* execute, from its try: to its first external call: the exception raised
\* there, or NoExc
PreCallException(t, a) ==
    LET req == RequiredArgs(t)
        missing == { i \in DOMAIN req : a[req[i]] = "missing" }
        parsed == { i \in DOMAIN req : LocallyParsed(t, req[i], a[req[i]]) }
    IN  IF missing # {}
        THEN KeyError(req[CHOOSE i \in missing : \A j \in missing : i <= j])
        ELSE IF TakesDepartureTime(t) /\ a["departure_time"] = "wrongtype"
        THEN AttributeError
        ELSE IF TakesDepartureTime(t) /\ a["departure_time"] = "badformat"
        THEN ValueError
        ELSE IF parsed # {}
        THEN TypeError
        ELSE NoExc

----------------------------------------------------------------------------
(* The external client *)

ApiStatuses ==
    {"OVER_QUERY_LIMIT", "REQUEST_DENIED", "ZERO_RESULTS", "PERMISSION_DENIED", "NOT_FOUND"}

\* googlemaps.exceptions.ApiError(status): str(e) is the status
ApiError(s) == [type |-> "ApiError", msg |-> <<s>>]

\* googlemaps.exceptions.TransportError(base): str(e) is str(base)
TransportError == [type |-> "TransportError", msg |-> <<"Connection reset by peer">>]

\* googlemaps.exceptions.Timeout(): raised without arguments, str(e) is ""
Timeout == [type |-> "Timeout", msg |-> << >>]

\* any other Exception, with or without a message
OtherException(m) == [type |-> "Exception", msg |-> m]

\* asyncio.CancelledError, thrown into the coroutine at its await when the
\* caller cancels the invocation's task; a BaseException, not an Exception
CancelledError == [type |-> "CancelledError", msg |-> << >>]

ClientExceptions ==
    { ApiError(s) : s \in ApiStatuses }
        \cup {TransportError, Timeout}
        \cup { OtherException(m) : m \in {<< >>, <<"Roads API error">>} }

\* the external calls of each execute, in order; retry says whether the call
\* goes through _execute_with_retry, kwargs are the keyword arguments given
\* to the client function (the Places helpers take positional arguments)
ExternalCalls(t) ==
    CASE t = "search_places" ->
            << [fn |-> "places.search_nearby", retry |-> FALSE, kwargs |-> {}] >>
      [] t = "get_place_details" ->
            << [fn |-> "places.get_place", retry |-> FALSE, kwargs |-> {}] >>
      [] t = "get_directions" ->
            << [fn |-> "directions", retry |-> TRUE,
                kwargs |-> {"origin", "destination", "mode", "departure_time",
                            "alternatives", "avoid", "traffic_model"}] >>
      [] t = "geocode_address" ->
            << [fn |-> "geocode", retry |-> TRUE,
                kwargs |-> {"address", "components", "region"}] >>
      [] t = "reverse_geocode" ->
            << [fn |-> "reverse_geocode", retry |-> TRUE,
                kwargs |-> {"latlng", "result_type"}] >>
      [] t = "calculate_distance_matrix" ->
            << [fn |-> "distance_matrix", retry |-> TRUE,
                kwargs |-> {"origins", "destinations", "mode", "avoid", "units"}] >>
      [] t = "snap_to_roads" ->
            << [fn |-> "snap_to_roads", retry |-> TRUE,
                kwargs |-> {"path", "interpolate"}] >>
      [] t = "get_speed_limits" ->
            << [fn |-> "speed_limits", retry |-> TRUE,
                kwargs |-> {"place_ids", "units"}] >>
      [] t = "get_traffic_conditions" ->
            << [fn |-> "directions", retry |-> TRUE,
                kwargs |-> {"origin", "destination", "mode", "departure_time",
                            "traffic_model"}] >>
      [] t = "calculate_route_safety_factors" ->
            << [fn |-> "directions", retry |-> TRUE,
                kwargs |-> {"origin", "destination", "mode", "departure_time",
                            "traffic_model"}],
               [fn |-> "snap_to_roads", retry |-> TRUE,
                kwargs |-> {"path", "interpolate"}],
               [fn |-> "speed_limits", retry |-> TRUE, kwargs |-> {"place_ids"}] >>
      [] t = "get_route_elevation_gain" ->
            << [fn |-> "directions", retry |-> TRUE,
                kwargs |-> {"origin", "destination", "mode"}],
               [fn |-> "elevation_along_path", retry |-> TRUE,
                kwargs |-> {"path", "samples"}] >>
      [] OTHER -> << >>

\* only the calls inside _execute_with_retry run in the executor
Offloaded_RetryOnly(t, k) == ExternalCalls(t)[k].retry

\* every external call is awaited through loop.run_in_executor: inside
\* _execute_with_retry for the calls that go through it, in execute itself
\* for the two Places tools
Offloaded(t, k) ==
    ExternalCalls(t)[k].retry \/ t \in {"search_places", "get_place_details"}

----------------------------------------------------------------------------
(* The retrying invoker: the tenacity decorator of _execute_with_retry *)

\* stop=stop_after_attempt(3)
stop_after_attempt == 3

\* wait=wait_exponential(multiplier=1, min=2, max=10)
wait_multiplier == 1
wait_min == 2
wait_max == 10

\* tenacity.wait_exponential.__call__:
\*   max(max(0, min), min(multiplier * 2 ** (attempt_number - 1), max))
WaitExponential(attempt_number) ==
    Max(Max(0, wait_min), Min(wait_multiplier * Pow2(attempt_number - 1), wait_max))

\* a retry predicate that also retries the client's API errors
RetryIfExceptionType_ApiToo(e) == e.type \in {"TransportError", "ApiError"}

\* a retry predicate that also retries a cancellation
RetryIfExceptionType_Cancelled(e) == e.type \in {"TransportError", "CancelledError"}

\* retry=retry_if_exception_type((googlemaps.exceptions.TransportError,))
RetryIfExceptionType(e) == e.type = "TransportError"

\* an off-by-one stop condition: one attempt more
StopNow_OffByOne(attempt_number) == attempt_number > stop_after_attempt

\* tenacity stops when attempt_number >= the limit
StopNow(attempt_number) == attempt_number >= stop_after_attempt

\* tenacity without reraise=True raises RetryError once it stops
RetryError ==
    [type |-> "RetryError",
     msg |-> <<"RetryError[", "<Future state=finished raised TransportError>", "]">>]

----------------------------------------------------------------------------
(* Route-safety scoring: RouteSafetyTool.execute.  Sub-scores and the overall
   score are in hundredths (4.0 is 400); safety_score is in tenths. *)

NoLeg == [duration |-> 0, duration_in_traffic |-> Absent]

\* leg.get("duration_in_traffic", {}).get("value", duration_seconds)
InTrafficSeconds(leg) ==
    IF leg.duration_in_traffic = Absent THEN leg.duration ELSE leg.duration_in_traffic

\* traffic_ratio > 1.4 / > 1.1, for duration_seconds > 0 (the quotient of two
\* integers compared with a decimal literal, cross-multiplied)
TrafficRisk(leg) ==
    IF leg.duration > 0
    THEN IF 10 * InTrafficSeconds(leg) > 14 * leg.duration THEN "High"
         ELSE IF 10 * InTrafficSeconds(leg) > 11 * leg.duration THEN "Moderate"
         ELSE "Low"
    ELSE "Low"

TrafficScore(leg) ==
    CASE TrafficRisk(leg) = "High" -> 400
      [] TrafficRisk(leg) = "Moderate" -> 700
      [] OTHER -> 1000

\* the outcome of the road lookup inside the inner try: the lookup raised
\* ("failed"), snap_to_roads returned nothing ("empty"), or speed_limits
\* returned a list of entries, each a speedLimit or Absent ("limits")
RoadFailed == [kind |-> "failed", limits |-> << >>]
RoadEmpty == [kind |-> "empty", limits |-> << >>]
RoadLimits(l) == [kind |-> "limits", limits |-> l]

\* speeds: the speedLimit of every entry that has one
Speeds(road) == SelectSeq(road.limits, LAMBDA x : x # Absent)

\* the first speed limit instead of the largest
MaxSpeedLimit_First(road) ==
    IF road.kind = "limits" /\ Speeds(road) # << >> THEN Speeds(road)[1] ELSE 0

\* max_speed_limit: 0 unless speeds is non-empty
MaxSpeedLimit(road) ==
    IF road.kind = "limits" /\ Speeds(road) # << >> THEN MaxOf(Speeds(road)) ELSE 0

SpeedRisk(road) ==
    IF road.kind = "limits" /\ Speeds(road) # << >>
    THEN IF MaxSpeedLimit(road) > 100 THEN "High Speed"
         ELSE IF MaxSpeedLimit(road) > 60 THEN "Moderate Speed"
         ELSE "Low Speed"
    ELSE "Unknown"

SpeedScore(road) ==
    CASE SpeedRisk(road) = "High Speed" -> 600
      [] SpeedRisk(road) = "Moderate Speed" -> 800
      [] SpeedRisk(road) = "Low Speed" -> 900
      [] OTHER -> 500

\* night bounds taken inclusively
TimeRisk_Inclusive(h) == IF h <= 6 \/ h >= 20 THEN "Night" ELSE "Day"

\* hour < 6 or hour > 20
TimeRisk(h) == IF h < 6 \/ h > 20 THEN "Night" ELSE "Day"

TimeScore(h) == IF TimeRisk(h) = "Night" THEN 600 ELSE 1000

\* three equal weights of 4
OverallScore_EqualWeights(leg, h, road) ==
    TrafficScore(leg) * 4 + SpeedScore(road) * 4 + TimeScore(h) * 4

\* overall_score = traffic_score * 4 + speed_score * 4 + time_score * 2
OverallScore(leg, h, road) ==
    TrafficScore(leg) * 4 + SpeedScore(road) * 4 + TimeScore(h) * 2

\* round(x, 1): hundredths to tenths, ties to even
Round1(x) ==
    LET q == x \div 10
        r == x % 10
    IN  IF r > 5 \/ (r = 5 /\ q % 2 = 1) THEN q + 1 ELSE q

\* levels whose upper bounds are inclusive
RiskLevel_Inclusive(overall) ==
    IF overall <= 6000 THEN "High" ELSE IF overall <= 8000 THEN "Moderate" ELSE "Low"

\* "High" if overall_score < 60 else "Moderate" if overall_score < 80 else "Low"
RiskLevel(overall) ==
    IF overall < 6000 THEN "High" ELSE IF overall < 8000 THEN "Moderate" ELSE "Low"

\* risk_factors, appended in the order traffic, road, time
RiskFactors(leg, h, road) ==
    (IF TrafficRisk(leg) # "Low"
        THEN << [factor |-> "Traffic", congestion |-> TrafficRisk(leg)] >> ELSE << >>)
    \o (IF SpeedRisk(road) = "High Speed"
        THEN << [factor |-> "Road", kmh |-> MaxSpeedLimit(road)] >> ELSE << >>)
    \o (IF TimeRisk(h) = "Night"
        THEN << [factor |-> "Conditions"] >> ELSE << >>)

\* the assessment dict
Assessment(leg, h, road) ==
    [kind |-> "assessment",
     safety_score |-> Round1(OverallScore(leg, h, road)),
     risk_level |-> RiskLevel(OverallScore(leg, h, road)),
     traffic_risk |-> TrafficRisk(leg),
     road_risk |-> SpeedRisk(road),
     time_risk |-> TimeRisk(h),
     max_speed_limit_kmh |->
        IF MaxSpeedLimit(road) > 0 THEN MaxSpeedLimit(road) ELSE Absent,
     risk_factors |-> RiskFactors(leg, h, road)]

----------------------------------------------------------------------------
(* Traffic analysis: TrafficConditionsTool.execute.  delay_minutes is in
   tenths of a minute. *)

\* delay_seconds = max(0, in_traffic_seconds - duration_seconds)
DelaySeconds(leg) == Max(0, InTrafficSeconds(leg) - leg.duration)

\* the delays d below 600 s with d/60 half-way between two tenths in decimal
\* (d = 6q + 3) whose double d / 60.0 lies above the half-way point
DoubleAboveHalf ==
    {3, 27, 33, 39, 63, 81, 93, 111, 141, 147, 171, 177, 201, 207, 231, 237, 249,
     267, 279, 297, 309, 327, 339, 357, 369, 387, 399, 417, 429, 447, 459, 477,
     483, 489, 513, 519, 543, 549, 573, 579}

\* round(delay_seconds / 60.0, 1) in tenths, for delay_seconds below 600:
\* the nearest tenth of the double; d / 60.0 is exactly half-way only when
\* d % 30 = 15 (0.25, 0.75, ...), which round() sends to the even tenth
RoundMinutes1(d) ==
    LET q == d \div 6
        r == d % 6
    IN  IF r < 3 THEN q
        ELSE IF r > 3 THEN q + 1
        ELSE IF d % 30 = 15 THEN (IF q % 2 = 1 THEN q + 1 ELSE q)
        ELSE IF d \in DoubleAboveHalf THEN q + 1 ELSE q

\* the thresholds of route-safety (1.4 and 1.1) used for the congestion level
CongestionLevel_SafetyThresholds(leg) ==
    IF leg.duration > 0
    THEN IF 10 * InTrafficSeconds(leg) > 14 * leg.duration THEN "Heavy"
         ELSE IF 10 * InTrafficSeconds(leg) > 11 * leg.duration THEN "Moderate"
         ELSE "Low"
    ELSE "Low"

\* ratio > 1.3 / > 1.1, for duration_seconds > 0
CongestionLevel(leg) ==
    IF leg.duration > 0
    THEN IF 10 * InTrafficSeconds(leg) > 13 * leg.duration THEN "Heavy"
         ELSE IF 10 * InTrafficSeconds(leg) > 11 * leg.duration THEN "Moderate"
         ELSE "Low"
    ELSE "Low"

\* the analysis dict
TrafficAnalysis(leg) ==
    [kind |-> "analysis",
     delay_minutes |-> RoundMinutes1(DelaySeconds(leg)),
     congestion_level |-> CongestionLevel(leg)]

----------------------------------------------------------------------------
(* execute: what each tool does once an external call has finished *)

Safety == "calculate_route_safety_factors"

\* the message of the "if not result" branch, for the tools that have one
EmptyMessage(t) ==
    CASE t = "geocode_address" -> <<"No results found for address">>
      [] t = "reverse_geocode" -> <<"No results found for coordinates">>
      [] t \in {"get_traffic_conditions", Safety, "get_route_elevation_gain"} ->
            <<"No route found">>
      [] OTHER -> None

\* an empty-result branch that only the two geocoding tools have
EmptyIsError_GeocodingOnly(t, k) ==
    k = 1 /\ t \in {"geocode_address", "reverse_geocode"}

\* the "if not result: return error" branch follows the first call only
EmptyIsError(t, k) == k = 1 /\ EmptyMessage(t) # None

\* "except Exception" (execute's outer clauses, route-safety's inner clause)
\* catches every exception of the model but the cancellation
ExecuteCatches(e) == e.type # "CancelledError"

\* the except clauses of execute (ApiError and Exception format alike)
ToolExcept(t, e) == FormatResponse(t, Null, "error", e.msg)

\* the entry of the distance matrix for an element of the response
DistanceEntry(status) ==
    IF status = "OK"
    THEN [status |-> "OK"]
    ELSE [status |-> status, error |-> <<"Could not calculate route: ", status>>]

\* the data of calculate_distance_matrix: one entry per element
DistanceMatrix(elements) ==
    [kind |-> "matrix",
     matrix |-> [j \in DOMAIN elements |-> DistanceEntry(elements[j])]]

\* the data of get_speed_limits: one entry per entry of the response, and
\* their number
SpeedLimitsData(speedLimits) ==
    [kind |-> "speed_limits",
     speed_limits |-> [j \in DOMAIN speedLimits |->
                          [place_id |-> speedLimits[j].placeId,
                           speed_limit |-> speedLimits[j].speedLimit,
                           units |-> speedLimits[j].units]],
     count |-> Len(speedLimits)]

\* an inner try around every secondary call, of whichever tool
SafetyInnerExcept_AnySecondary(t, k) == k >= 2

\* an inner try that ends before the speed_limits call
SafetyInnerExcept_SnapOnly(t, k) == t = Safety /\ k = 2

\* the inner try of RouteSafetyTool.execute: except Exception, continue
SafetyInnerExcept(t, k) == t = Safety /\ k >= 2

\* a road lookup that asks for speed limits whatever snap_to_roads returned
SkipsSpeedLimits_Never(t, k, payload) == FALSE

\* route-safety's "if snapped:": no speed_limits call for an empty snap
SkipsSpeedLimits(t, k, payload) == t = Safety /\ k = 2 /\ payload.kind = "empty"

Continue == [next |-> "call", env |-> [status |-> "pending"]]
Return(env) == [next |-> "return", env |-> env]
Raise(e) == [next |-> "raise", env |-> [status |-> "raised"], exc |-> e]

\* execute resumed after its k-th external call finished (lg[k] holds the
\* payload returned or the exception raised): either the next call is made
\* or an envelope is returned
ToolStep(t, lg, h) ==
    LET k == Len(lg)
        last == lg[k]
    IN  IF last.exc # NoExc /\ ~ExecuteCatches(last.exc)
        THEN Raise(last.exc)
        ELSE IF last.exc # NoExc
        THEN IF SafetyInnerExcept(t, k)
             THEN Return(FormatResponse(t, Assessment(lg[1].payload.leg, h, RoadFailed),
                                        "success", None))
             ELSE Return(ToolExcept(t, last.exc))
        ELSE IF last.payload.kind = "empty" /\ EmptyIsError(t, k)
        THEN Return(FormatResponse(t, Null, "error", EmptyMessage(t)))
        ELSE IF SkipsSpeedLimits(t, k, last.payload)
        THEN Return(FormatResponse(t, Assessment(lg[1].payload.leg, h, RoadEmpty),
                                   "success", None))
        ELSE IF t = Safety /\ k = 3
        THEN Return(FormatResponse(t, Assessment(lg[1].payload.leg, h,
                                                 RoadLimits(last.payload.limits)),
                                   "success", None))
        ELSE IF t = "get_speed_limits"
        THEN Return(FormatResponse(t, SpeedLimitsData(last.payload.speedLimits),
                                   "success", None))
        ELSE IF t = "calculate_distance_matrix"
        THEN Return(FormatResponse(t, DistanceMatrix(last.payload.elements), "success", None))
        ELSE IF t = "get_traffic_conditions"
        THEN Return(FormatResponse(t, TrafficAnalysis(lg[1].payload.leg), "success", None))
        ELSE IF k < Len(ExternalCalls(t))
        THEN Continue
        ELSE Return(FormatResponse(t, [kind |-> "payload", of |-> last.payload.kind],
                                   "success", None))

----------------------------------------------------------------------------
(* The dispatcher: call_tool *)

NoResult == [form |-> "none"]

\* the tool-not-found branch: TextContent(text=f"Unknown tool: {name}")
UnknownTool(n) == [form |-> "text", text |-> <<"Unknown tool: ", n>>]

\* the except Exception branch: the error_result dict
DispatchExcept(n, e) == [status |-> "error", tool |-> n, error |-> e.msg]

\* json.dumps raising on a value it cannot encode
JsonTypeError == [type |-> "TypeError", msg |-> <<"Object is not JSON serializable">>]

\* the results whose data is built from client-library objects (the Places
\* client's response messages) and not from decoded JSON: json.dumps may raise
MayNotSerialise(env) ==
    /\ env.tool \in {"search_places", "get_place_details"}
    /\ HasKey(env, "data")
    /\ env.data # Null

\* a narrower except clause: only the client's API errors
DispatcherCatches_ApiErrorOnly(e) == e.type = "ApiError"

\* except Exception: every exception class of the model derives from Exception
DispatcherCatches(e) ==
    e.type \in {"KeyError", "ValueError", "AttributeError", "TypeError", "ApiError",
                "TransportError", "Timeout", "Exception", "RetryError"}

\* call_tool from the return of execute on: json.dumps(result) in the try,
\* the except branch if it raises
Respond(n, env, dumps) ==
    IF dumps = NoExc
    THEN [form |-> "json", env |-> env, caught |-> NoExc]
    ELSE IF DispatcherCatches(dumps)
    THEN [form |-> "json", env |-> DispatchExcept(n, dumps), caught |-> dumps]
    ELSE [form |-> "raised", exc |-> dumps]

Responses(n, env) ==
    { Respond(n, env, d) :
        d \in {NoExc} \cup (IF MayNotSerialise(env) THEN {JsonTypeError} ELSE {}) }

----------------------------------------------------------------------------
(* GPS-trace analysis: GPSTraceAnalyzer of examples/gps_trace_analyzer.py.
   A point of gps_trace is [speed |-> s] (s = Absent without a "speed" key),
   a snapped point is [place_id |-> id].  The compliance score and the
   overage percentage are fractions num/den, compared by cross-multiplying
   (den > 0 wherever they are compared). *)

\* the data of snap_to_roads: one snapped point per point of the response
SnappedPointsData(points) ==
    [kind |-> "snapped",
     snapped_points |-> [j \in DOMAIN points |-> [place_id |-> points[j].placeId]],
     count |-> Len(points)]

\* place_ids = [p["place_id"] for p in snapped_points]
PlaceIds(snapped_points) ==
    [j \in DOMAIN snapped_points |-> snapped_points[j].place_id]

\* one id per snapped point, repeats kept
UniquePlaceIds_PerPoint(place_ids) == place_ids

\* list(dict.fromkeys(place_ids)): each id once, in first-occurrence order
RECURSIVE UniquePlaceIds(_)
UniquePlaceIds(place_ids) ==
    IF place_ids = << >> THEN << >>
    ELSE LET front == UniquePlaceIds(SubSeq(place_ids, 1, Len(place_ids) - 1))
             last == place_ids[Len(place_ids)]
         IN  IF \E j \in DOMAIN front : front[j] = last
             THEN front
             ELSE Append(front, last)

\* the argument dict of the analyzer's call of speed_tool.execute
SpeedRequest(snapped_points) ==
    [place_ids |-> UniquePlaceIds(PlaceIds(snapped_points)), units |-> "MPH"]

\* speed_limits.get(place_id) on the dict built from the entries of the
\* speed-limits data (a later entry of the same id replaces an earlier one)
SpeedLimitGet(entries, place_id) ==
    LET hits == { j \in DOMAIN entries : entries[j].place_id = place_id }
    IN  IF hits = {} THEN Absent
        ELSE entries[CHOOSE j \in hits : \A k \in hits : k <= j].speed_limit

\* gps_trace[i].get("speed", 0)
VehicleSpeed(point) == IF point.speed = Absent THEN 0 ELSE point.speed

\* a check that takes every limit the dict holds, 0 included
IsViolation_AnyLimit(gps_trace, i, speed_limit) ==
    /\ speed_limit # Absent
    /\ i <= Len(gps_trace)
    /\ VehicleSpeed(gps_trace[i]) > speed_limit

\* "if speed_limit and i < len(gps_trace):" then
\* "if vehicle_speed > speed_limit:", for the i-th snapped point (from 1)
IsViolation(gps_trace, i, speed_limit) ==
    /\ speed_limit # Absent
    /\ speed_limit # 0
    /\ i <= Len(gps_trace)
    /\ VehicleSpeed(gps_trace[i]) > speed_limit

\* ((vehicle_speed - speed_limit) / speed_limit) * 100
OveragePercent(vehicle_speed, speed_limit) ==
    [num |-> (vehicle_speed - speed_limit) * 100, den |-> speed_limit]

\* overage_percent > p
Above(overage_percent, p) == overage_percent.num > p * overage_percent.den

\* thresholds that include their bound
GetViolationSeverity_Inclusive(vehicle_speed, speed_limit) ==
    LET f == OveragePercent(vehicle_speed, speed_limit)
    IN  IF f.num >= 50 * f.den THEN "CRITICAL"
        ELSE IF f.num >= 25 * f.den THEN "HIGH"
        ELSE IF f.num >= 10 * f.den THEN "MEDIUM"
        ELSE "LOW"

\* _get_violation_severity
GetViolationSeverity(vehicle_speed, speed_limit) ==
    LET overage_percent == OveragePercent(vehicle_speed, speed_limit)
    IN  IF Above(overage_percent, 50) THEN "CRITICAL"
        ELSE IF Above(overage_percent, 25) THEN "HIGH"
        ELSE IF Above(overage_percent, 10) THEN "MEDIUM"
        ELSE "LOW"

\* the violation dict of the i-th snapped point
Violation(i, vehicle_speed, speed_limit) ==
    [point |-> i,
     speed_limit |-> speed_limit,
     vehicle_speed |-> vehicle_speed,
     overage |-> vehicle_speed - speed_limit,
     overage_percent |-> OveragePercent(vehicle_speed, speed_limit),
     severity |-> GetViolationSeverity(vehicle_speed, speed_limit)]

\* the loop over enumerate(snapped_points): the violations of the first n
\* snapped points, in order
RECURSIVE Violations(_, _, _, _)
Violations(gps_trace, snapped_points, entries, n) ==
    IF n = 0 THEN << >>
    ELSE LET before == Violations(gps_trace, snapped_points, entries, n - 1)
             speed_limit == SpeedLimitGet(entries, snapped_points[n].place_id)
         IN  IF IsViolation(gps_trace, n, speed_limit)
             THEN Append(before, Violation(n, VehicleSpeed(gps_trace[n]), speed_limit))
             ELSE before

\* the amount a violation takes off the compliance
Penalty(severity) ==
    CASE severity = "CRITICAL" -> 5
      [] severity = "HIGH" -> 3
      [] severity = "MEDIUM" -> 1
      [] OTHER -> 0

\* "for violation in violations: compliance -= ...", on the numerator
RECURSIVE Penalised(_, _, _)
Penalised(num, den, violations) ==
    IF violations = << >> THEN num
    ELSE Penalised(num - Penalty(Head(violations).severity) * den, den, Tail(violations))

\* a score returned as it stands after the penalties
Clamp_None(num, den) == [num |-> num, den |-> den]

\* max(0.0, min(100.0, compliance))
Clamp(num, den) == [num |-> Max(0, Min(100 * den, num)), den |-> den]

\* _calculate_compliance_score, for a trace of trace_length points
CalculateComplianceScore(trace_length, violations) ==
    IF trace_length = 0
    THEN [num |-> 100, den |-> 1]
    ELSE Clamp(Penalised((trace_length - Len(violations)) * 100, trace_length, violations),
               trace_length)

\* severity_counts.get(severity, 0)
SeverityCount(violations, severity) ==
    Cardinality({ j \in DOMAIN violations : violations[j].severity = severity })

Excellent == <<"Excellent driving! No violations detected.">>
CriticalMessage ==
    <<"CRITICAL: Excessive speeding detected. Immediate driver counseling required.">>
TrainingMessage ==
    <<"Multiple high-severity violations. Schedule driver safety training.">>
DeviceMessage == <<"Consider installing in-vehicle speed limiters or warning systems.">>
TotalMessage(n) == <<"Total violations: ", ToString(n), ". Review route and driver behavior.">>

\* _generate_recommendations
GenerateRecommendations(violations) ==
    IF violations = << >>
    THEN << Excellent >>
    ELSE (IF SeverityCount(violations, "CRITICAL") > 0 THEN << CriticalMessage >> ELSE << >>)
         \o (IF SeverityCount(violations, "HIGH") > 2 THEN << TrainingMessage >> ELSE << >>)
         \o (IF Len(violations) > 5 THEN << DeviceMessage >> ELSE << >>)
         \o << TotalMessage(Len(violations)) >>

\* the two early returns of analyze_trace
SnapFailedReport == [error |-> <<"Failed to snap GPS points to roads">>]
SpeedFailedReport == [error |-> <<"Failed to retrieve speed limits">>]

\* the report dict of analyze_trace
TraceReport(gps_trace, snapped_points, entries) ==
    LET violations == Violations(gps_trace, snapped_points, entries, Len(snapped_points))
    IN  [trace_length |-> Len(gps_trace),
         snapped_points |-> Len(snapped_points),
         violations |-> violations,
         compliance_score |-> CalculateComplianceScore(Len(gps_trace), violations),
         recommendations |-> GenerateRecommendations(violations)]

----------------------------------------------------------------------------
(* One speed_limits response read by the two tools.  A response is
   [shape, entries]: the list of entries itself, or a dict that holds the
   list under the key "speedLimits". *)

\* RouteSafetyTool.execute: "for limit in limits: if "speedLimit" in limit:
\* speeds.append(limit["speedLimit"])".  Over a list it collects the limits;
\* over a dict it visits the key "speedLimits", of which "speedLimit" is a
\* substring, and indexing that str with a str raises TypeError, which the
\* inner except absorbs
SafetyRoadOutcome(response) ==
    IF response.shape = "list"
    THEN RoadLimits([j \in DOMAIN response.entries |-> response.entries[j].speedLimit])
    ELSE RoadFailed

\* SpeedLimitsTool.execute: result.get("speedLimits", []) and the loop over
\* its entries.  A list has no get (AttributeError); an entry without
\* "speedLimit" raises KeyError; both end in the except clause
SpeedLimitsEnvelope(response) ==
    IF response.shape = "list"
    THEN ToolExcept("get_speed_limits", AttributeError)
    ELSE IF \E j \in DOMAIN response.entries : response.entries[j].speedLimit = Absent
    THEN ToolExcept("get_speed_limits", KeyError("speedLimit"))
    ELSE FormatResponse("get_speed_limits", SpeedLimitsData(response.entries),
                        "success", None)

\* Settings: the retry configuration fields and their defaults
DefaultSettings == [max_retries |-> 3, retry_min_wait |-> 1, retry_max_wait |-> 10]

----------------------------------------------------------------------------
(* Inputs *)

\* longest speed_limits response enumerated
MaxLimits == 2

UnknownNames == {"optimize_route"}

\* legs and hours of the invocations of Spec
InvocationLegs ==
    { [duration |-> 1000, duration_in_traffic |-> Absent],
      [duration |-> 1000, duration_in_traffic |-> 1050],
      [duration |-> 1000, duration_in_traffic |-> 1200],
      [duration |-> 1000, duration_in_traffic |-> 1500],
      [duration |-> 0, duration_in_traffic |-> 500] }

InvocationHours == {2, 12}

InvocationLimits == { << >>, <<Absent>>, <<50>>, <<120, 80>> }

\* legs, hours and speed_limits responses of ScoreSpec
ScoreLegs ==
    [duration : {0, 1000},
     duration_in_traffic : {Absent, 900, 1000, 1050, 1100, 1101, 1400, 1401, 1500}]

ScoreHours == {0, 2, 5, 6, 12, 20, 21, 23}

SpeedValues == {Absent, 0, 50, 60, 61, 100, 101, 120}

LimitLists == UNION { [1..n -> SpeedValues] : n \in 0..MaxLimits }

RoadOutcomes == {RoadFailed, RoadEmpty} \cup { RoadLimits(l) : l \in LimitLists }

\* legs of TrafficSpec: every delay from none to the longest enumerated
MaxDelay == 520

TrafficLegs ==
    [duration : {0, 1000},
     duration_in_traffic : {Absent, 900} \cup { 1000 + d : d \in 0..MaxDelay }]

\* concurrent invocations of ConcSpec
MaxTasks == 2

Tasks == 1..MaxTasks

ConcNames == {"geocode_address", "search_places"} \cup UnknownNames

ConcArgKinds == {"ok", "missing"}

ConcHour == CHOOSE h \in InvocationHours : TimeRisk(h) = "Day"

ConcExceptions == {TransportError, ApiError("OVER_QUERY_LIMIT")}

\* the "speedLimits" entries of the responses given to get_speed_limits
InvocationSpeedLimits ==
    { << >>,
      << [placeId |-> "p1", speedLimit |-> 65, units |-> "MPH"] >>,
      << [placeId |-> "p1", speedLimit |-> 100, units |-> "KPH"],
         [placeId |-> "p2", speedLimit |-> 80, units |-> "KPH"] >> }

\* element statuses of the distance_matrix responses (one origin)
InvocationElements == { <<"OK">>, <<"OK", "NOT_FOUND">>, <<"ZERO_RESULTS">> }

OkPayload == [kind |-> "ok", leg |-> NoLeg, limits |-> << >>, elements |-> << >>, speedLimits |-> << >>]
EmptyPayload == [kind |-> "empty", leg |-> NoLeg, limits |-> << >>, elements |-> << >>, speedLimits |-> << >>]
NoPayload == [kind |-> "none", leg |-> NoLeg, limits |-> << >>, elements |-> << >>, speedLimits |-> << >>]

\* what the k-th external call of tool t can return
Payloads(t, k) ==
    IF t \in {Safety, "get_traffic_conditions"} /\ k = 1
    THEN { [kind |-> "ok", leg |-> l, limits |-> << >>, elements |-> << >>, speedLimits |-> << >>] :
            l \in InvocationLegs }
            \cup {EmptyPayload}
    ELSE IF t = Safety /\ k = 3
    THEN { [kind |-> IF l = << >> THEN "empty" ELSE "ok", leg |-> NoLeg, limits |-> l,
            elements |-> << >>, speedLimits |-> << >>] : l \in InvocationLimits }
    ELSE IF ExternalCalls(t)[k].fn = "distance_matrix"
    THEN { [kind |-> "ok", leg |-> NoLeg, limits |-> << >>, elements |-> el,
            speedLimits |-> << >>] : el \in InvocationElements }
    ELSE IF t = "get_speed_limits"
    THEN { [kind |-> IF sl = << >> THEN "empty" ELSE "ok", leg |-> NoLeg,
            limits |-> << >>, elements |-> << >>, speedLimits |-> sl] :
            sl \in InvocationSpeedLimits }
    ELSE IF ExternalCalls(t)[k].fn = "places.get_place"
    THEN {OkPayload}
    ELSE {OkPayload, EmptyPayload}

\* longest trace of TraceSpec; snap_to_roads interpolates, so it may return
\* one point more than the trace has
MaxPoints == 2

\* recorded speeds (MPH) and speed limits around every threshold: at limit
\* 20 the speeds 22, 25 and 30 are 10, 25 and 50 percent over, at limit 30
\* the speed 45 is 50 percent over
TraceSpeeds == {Absent, 22, 23, 25, 26, 30, 31, 45}

GpsTraces == UNION { [1..n -> [speed : TraceSpeeds]] : n \in 0..MaxPoints }

SegmentIds == {"a", "b"}

\* the responses of the client's snap_to_roads
SnapResponses == UNION { [1..n -> [placeId : SegmentIds]] : n \in 0..(MaxPoints + 1) }

\* what snap_tool.execute returns to the analyzer
SnapResults ==
    { FormatResponse("snap_to_roads", Null, "error", ApiError("OVER_QUERY_LIMIT").msg) }
    \cup { FormatResponse("snap_to_roads", SnappedPointsData(p), "success", None) :
             p \in SnapResponses }

\* the "speedLimits" entries of the responses given to the analyzer's lookup
TraceSpeedLimits ==
    { << >>,
      << [placeId |-> "a", speedLimit |-> 30, units |-> "MPH"] >>,
      << [placeId |-> "a", speedLimit |-> 0, units |-> "MPH"] >>,
      << [placeId |-> "b", speedLimit |-> 20, units |-> "MPH"] >>,
      << [placeId |-> "a", speedLimit |-> 20, units |-> "MPH"],
         [placeId |-> "b", speedLimit |-> 30, units |-> "MPH"] >>,
      << [placeId |-> "a", speedLimit |-> 20, units |-> "MPH"],
         [placeId |-> "b", speedLimit |-> 0, units |-> "MPH"] >>,
      << [placeId |-> "a", speedLimit |-> 30, units |-> "MPH"],
         [placeId |-> "a", speedLimit |-> 20, units |-> "MPH"] >> }

\* what speed_tool.execute returns to the analyzer
SpeedResults ==
    { FormatResponse("get_speed_limits", Null, "error", TypeError.msg) }
    \cup { FormatResponse("get_speed_limits", SpeedLimitsData(sl), "success", None) :
             sl \in TraceSpeedLimits }

\* longest list of violations of ReportSpec
MaxViolations == 6

Severities == {"CRITICAL", "HIGH", "MEDIUM", "LOW"}

ViolationLists == UNION { [1..n -> [severity : Severities]] : n \in 0..MaxViolations }

\* a trace has at least as many points as violations
ReportInputs ==
    { in \in [trace_length : 0..MaxViolations, violations : ViolationLists] :
        Len(in.violations) <= in.trace_length }

\* the values a speed_limits response may have: the list of entries, or the
\* dict that holds that list under "speedLimits"
ResponseShapes == {"list", "dict"}

SpeedLimitsResponses ==
    [shape : ResponseShapes,
     entries : { [j \in DOMAIN l |-> [placeId |-> <<"p", j>>, speedLimit |-> l[j],
                                       units |-> "KPH"]] : l \in LimitLists }]

\* the Settings a server can be started with: the defaults, and values set
\* through the environment
SettingsChoices ==
    { DefaultSettings,
      [max_retries |-> 5, retry_min_wait |-> 3, retry_max_wait |-> 10],
      [max_retries |-> 1, retry_min_wait |-> 1, retry_max_wait |-> 1] }

----------------------------------------------------------------------------
(* Spec: one invocation of call_tool at a time, from the request to the
   response, with the external client's answers chosen freely *)

Idle ==
    /\ pc = "idle"
    /\ name = ""
    /\ arguments = << >>
    /\ hour = 0
    /\ call = 0
    /\ attempt = 0
    /\ outcomes = << >>
    /\ waits = << >>
    /\ log = << >>
    /\ result = NoResult

FmtIdle == [phase |-> "unused"]
ScoreIdle == [phase |-> "unused"]
TrafficIdle == [phase |-> "unused"]
GpsIdle == [phase |-> "unused"]
ReportIdle == [phase |-> "unused"]
RoadsIdle == [phase |-> "unused"]
NoTasks == << >>

\* a coroutine frame of call_tool and execute before the call
IdleFrame ==
    [pc |-> "idle", name |-> "", arguments |-> << >>, call |-> 0, attempt |-> 0,
     outcomes |-> << >>, waits |-> << >>, log |-> << >>, result |-> NoResult]

\* what an invocation is given: the request, and the answers of the external
\* client to its attempts, in order
NoInputs == [name |-> "", arguments |-> << >>, responses |-> << >>]

IdleTask == [inputs |-> NoInputs, frame |-> IdleFrame]

Init ==
    /\ tools = ServerTools
    /\ Idle
    /\ fmt = FmtIdle
    /\ score = ScoreIdle
    /\ traffic = TrafficIdle
    /\ tasks = NoTasks
    /\ gps = GpsIdle
    /\ report = ReportIdle
    /\ roads = RoadsIdle

\* the tool that serves the invocation in progress
Tool == Lookup(tools, name)

\* the entry of log for the call in progress, once it finished
Finished(exc, payload, types) ==
    [fn |-> ExternalCalls(Tool)[call].fn,
     retry |-> ExternalCalls(Tool)[call].retry,
     kwargs |-> ExternalCalls(Tool)[call].kwargs,
     attempts |-> attempt,
     outcomes |-> types,
     waits |-> waits,
     exc |-> exc,
     payload |-> payload]

\* execute resumes with the finished call lg[Len(lg)] and runs to its next
\* await or to the end of call_tool; an exception that execute does not
\* catch meets call_tool's except clause, and one that passes it too ends
\* the invocation's task
Resume(lg) ==
    LET step == ToolStep(Tool, lg, hour)
    IN  /\ log' = lg
        /\ IF step.next = "call"
           THEN /\ pc' = "attempt"
                /\ call' = call + 1
                /\ attempt' = 1
                /\ outcomes' = << >>
                /\ waits' = << >>
                /\ result' = result
           ELSE IF step.next = "raise"
           THEN /\ pc' = IF DispatcherCatches(step.exc) THEN "done" ELSE "cancelled"
                /\ result' = Respond(name, step.env, step.exc)
                /\ UNCHANGED <<call, attempt, outcomes, waits>>
           ELSE /\ pc' = "done"
                /\ result' \in Responses(name, step.env)
                /\ UNCHANGED <<call, attempt, outcomes, waits>>

\* call_tool(name, arguments) up to the first await of execute
CallTool(n, a, h) ==
    /\ pc = "idle"
    /\ name' = n
    /\ arguments' = a
    /\ hour' = h
    /\ log' = << >>
    /\ outcomes' = << >>
    /\ waits' = << >>
    /\ LET t == Lookup(tools, n)
       IN  IF t = "<no tool>"
           THEN /\ pc' = "done"
                /\ result' = UnknownTool(n)
                /\ UNCHANGED <<call, attempt>>
           ELSE IF PreCallException(t, a) # NoExc
           THEN /\ pc' = "done"
                /\ result' \in Responses(n, ToolExcept(t, PreCallException(t, a)))
                /\ UNCHANGED <<call, attempt>>
           ELSE /\ pc' = "attempt"
                /\ call' = 1
                /\ attempt' = 1
                /\ result' = NoResult
    /\ UNCHANGED <<tools, fmt, score, traffic, tasks,
                   gps, report, roads>>

\* list_tools: [tool.to_mcp_tool() for tool in self.tools]
ListTools ==
    /\ pc = "idle"
    /\ pc' = "listed"
    /\ result' = [form |-> "tools", tools |-> [i \in DOMAIN tools |-> ToMcpTool(tools[i])]]
    /\ UNCHANGED <<tools, name, arguments, hour, call, attempt, outcomes, waits, log,
                   fmt, score, traffic, tasks,
                   gps, report, roads>>

\* the external call in progress returns
AttemptReturns(p) ==
    /\ pc = "attempt"
    /\ p \in Payloads(Tool, call)
    /\ Resume(Append(log, Finished(NoExc, p, outcomes)))
    /\ UNCHANGED <<tools, name, arguments, hour, fmt, score, traffic, tasks,
                   gps, report, roads>>

\* the external call in progress raises e and tenacity sleeps before the
\* next attempt
AttemptRetried(e) ==
    /\ pc = "attempt"
    /\ ExternalCalls(Tool)[call].retry
    /\ RetryIfExceptionType(e)
    /\ ~StopNow(attempt)
    /\ pc' = "backoff"
    /\ outcomes' = Append(outcomes, e.type)
    /\ waits' = Append(waits, WaitExponential(attempt))
    /\ UNCHANGED <<tools, name, arguments, hour, call, attempt, log, result, fmt, score, traffic, tasks,
                   gps, report, roads>>

\* the external call in progress raises e and the exception reaches execute:
\* e itself when it is not retried, RetryError when tenacity gives up
AttemptRaises(e) ==
    /\ pc = "attempt"
    /\ LET wrapped == ExternalCalls(Tool)[call].retry /\ RetryIfExceptionType(e)
       IN  /\ wrapped => StopNow(attempt)
           /\ Resume(Append(log, Finished(IF wrapped THEN RetryError ELSE e,
                                          NoPayload, Append(outcomes, e.type))))
    /\ UNCHANGED <<tools, name, arguments, hour, fmt, score, traffic, tasks,
                   gps, report, roads>>

\* the backoff sleep ends and the next attempt starts
BackoffElapsed ==
    /\ pc = "backoff"
    /\ pc' = "attempt"
    /\ attempt' = attempt + 1
    /\ UNCHANGED <<tools, name, arguments, hour, call, outcomes, waits, log, result, fmt, score, traffic, tasks,
                   gps, report, roads>>

\* the caller cancels the task during the backoff wait: asyncio.sleep raises
\* CancelledError in tenacity's loop, outside the attempt, and it leaves
\* _execute_with_retry; the cancellation is recorded as the call's last outcome
BackoffCancelled ==
    /\ pc = "backoff"
    /\ Resume(Append(log, Finished(CancelledError, NoPayload,
                                   Append(outcomes, CancelledError.type))))
    /\ UNCHANGED <<tools, name, arguments, hour, fmt, score, traffic, tasks,
                   gps, report, roads>>

\* the response is handed to the protocol layer, or the cancelled task is
\* gone; the next request can come
Responded ==
    /\ pc \in {"done", "cancelled", "listed"}
    /\ pc' = "idle"
    /\ name' = ""
    /\ arguments' = << >>
    /\ hour' = 0
    /\ call' = 0
    /\ attempt' = 0
    /\ outcomes' = << >>
    /\ waits' = << >>
    /\ log' = << >>
    /\ result' = NoResult
    /\ UNCHANGED <<tools, fmt, score, traffic, tasks,
                   gps, report, roads>>

Next ==
    \/ \E n \in ToolNames \cup UnknownNames :
          \E a \in [ArgNames(n) -> ArgKinds] :
             \E h \in (IF n = Safety THEN InvocationHours ELSE {12}) :
                CallTool(n, a, h)
    \/ \E p \in {OkPayload, EmptyPayload} \cup UNION { Payloads(Safety, k) : k \in {1, 3} }
                \cup Payloads("calculate_distance_matrix", 1)
                \cup Payloads("get_speed_limits", 1) :
          AttemptReturns(p)
    \/ \E e \in ClientExceptions \cup {CancelledError} : AttemptRetried(e)
    \/ \E e \in ClientExceptions \cup {CancelledError} : AttemptRaises(e)
    \/ BackoffElapsed
    \/ BackoffCancelled
    \/ ListTools
    \/ Responded

Spec == Init /\ [][Next]_vars

----------------------------------------------------------------------------
(* FormatSpec: _format_response applied to every combination of arguments *)

FormatData == {Null, [kind |-> "payload", of |-> "ok"], [kind |-> "payload", of |-> "empty"]}
FormatStatus == {"success", "error"}
FormatError == {None, << >>, <<"Test error">>, <<"No route found">>}

FormatInit ==
    /\ tools = ServerTools
    /\ Idle
    /\ score = ScoreIdle
    /\ traffic = TrafficIdle
    /\ tasks = NoTasks
    /\ gps = GpsIdle
    /\ report = ReportIdle
    /\ roads = RoadsIdle
    /\ fmt \in [phase : {"called"}, tool : ToolNames, data : FormatData,
                status : FormatStatus, error : FormatError]

FormatResponseCall ==
    /\ fmt.phase = "called"
    /\ fmt' = [phase |-> "returned", tool |-> fmt.tool, data |-> fmt.data,
               status |-> fmt.status, error |-> fmt.error,
               response |-> FormatResponse(fmt.tool, fmt.data, fmt.status, fmt.error)]
    /\ UNCHANGED <<tools, pc, name, arguments, hour, call, attempt, outcomes, waits,
                   log, result, score, traffic, tasks,
                   gps, report, roads>>

FormatNext == FormatResponseCall

FormatSpec == FormatInit /\ [][FormatNext]_vars

----------------------------------------------------------------------------
(* ScoreSpec: the route-safety scoring applied to every leg, departure hour
   and outcome of the road lookup *)

ScoreInit ==
    /\ tools = ServerTools
    /\ Idle
    /\ fmt = FmtIdle
    /\ traffic = TrafficIdle
    /\ tasks = NoTasks
    /\ gps = GpsIdle
    /\ report = ReportIdle
    /\ roads = RoadsIdle
    /\ score \in [phase : {"inputs"}, leg : ScoreLegs, hour : ScoreHours,
                  road : RoadOutcomes]

AssessRoute ==
    /\ score.phase = "inputs"
    /\ score' = [phase |-> "assessed", leg |-> score.leg, hour |-> score.hour,
                 road |-> score.road,
                 assessment |-> Assessment(score.leg, score.hour, score.road)]
    /\ UNCHANGED <<tools, pc, name, arguments, hour, call, attempt, outcomes, waits,
                   log, result, fmt, traffic, tasks,
                   gps, report, roads>>

ScoreNext == AssessRoute

ScoreSpec == ScoreInit /\ [][ScoreNext]_vars

----------------------------------------------------------------------------
(* TrafficSpec: the traffic analysis applied to every leg *)

TrafficInit ==
    /\ tools = ServerTools
    /\ Idle
    /\ fmt = FmtIdle
    /\ score = ScoreIdle
    /\ tasks = NoTasks
    /\ gps = GpsIdle
    /\ report = ReportIdle
    /\ roads = RoadsIdle
    /\ traffic \in [phase : {"inputs"}, leg : TrafficLegs]

AnalyzeTraffic ==
    /\ traffic.phase = "inputs"
    /\ traffic' = [phase |-> "analyzed", leg |-> traffic.leg,
                   analysis |-> TrafficAnalysis(traffic.leg)]
    /\ UNCHANGED <<tools, pc, name, arguments, hour, call, attempt, outcomes, waits,
                   log, result, fmt, score, tasks,
                   gps, report, roads>>

TrafficNext == AnalyzeTraffic

TrafficSpec == TrafficInit /\ [][TrafficNext]_vars

----------------------------------------------------------------------------
(* ConcSpec: MaxTasks invocations of call_tool as tasks of one event loop.
   An action is the run of one coroutine from one await to the next. *)

\* one frame shared by all the invocations
Locals_Shared(ts, i) == ts[1].frame

\* the local variables of invocation i: the frame of its own coroutine
Locals(ts, i) == ts[i].frame

\* the task keeps the event-loop thread while its external call is in
\* progress, unless the call runs in the executor (asyncio.sleep, the
\* backoff wait, never keeps it)
HoldsLoop(fr) ==
    fr.pc = "attempt" /\ ~Offloaded(Lookup(tools, fr.name), fr.call)

\* the event loop can run a step of invocation i
LoopFree(i) == \A j \in Tasks \ {i} : ~HoldsLoop(Locals(tasks, j))

\* the entry of a frame's log for its call in progress, once it finished
FrameFinished(fr, exc, payload, types) ==
    LET c == ExternalCalls(Lookup(tools, fr.name))[fr.call]
    IN  [fn |-> c.fn, retry |-> c.retry, kwargs |-> c.kwargs, attempts |-> fr.attempt,
         outcomes |-> types, waits |-> fr.waits, exc |-> exc, payload |-> payload]

\* the frames execute can be in after it resumed with the finished call
FrameResumed(fr, lg) ==
    LET step == ToolStep(Lookup(tools, fr.name), lg, ConcHour)
    IN  IF step.next = "call"
        THEN { [fr EXCEPT !.log = lg, !.pc = "attempt", !.call = fr.call + 1,
                          !.attempt = 1, !.outcomes = << >>, !.waits = << >>] }
        ELSE { [fr EXCEPT !.log = lg, !.pc = "done", !.result = r] :
                  r \in Responses(fr.name, step.env) }

\* invocation i takes the frame fr; rs are the answers it was given so far
TaskBecomes(i, fr, rs) ==
    tasks' = [tasks EXCEPT ![i] = [inputs |-> [@.inputs EXCEPT !.responses = rs],
                                   frame |-> fr]]

Answers(i) == tasks[i].inputs.responses

TaskCallTool(i, n, a) ==
    /\ LoopFree(i)
    /\ Locals(tasks, i).pc = "idle"
    /\ LET t == Lookup(tools, n)
           fr == [IdleFrame EXCEPT !.name = n, !.arguments = a]
       IN  \E next \in
                 IF t = "<no tool>"
                 THEN { [fr EXCEPT !.pc = "done", !.result = UnknownTool(n)] }
                 ELSE IF PreCallException(t, a) # NoExc
                 THEN { [fr EXCEPT !.pc = "done", !.result = r] :
                          r \in Responses(n, ToolExcept(t, PreCallException(t, a))) }
                 ELSE { [fr EXCEPT !.pc = "attempt", !.call = 1, !.attempt = 1] } :
              tasks' = [tasks EXCEPT ![i] =
                           [inputs |-> [name |-> n, arguments |-> a, responses |-> << >>],
                            frame |-> next]]
    /\ UNCHANGED <<tools, pc, name, arguments, hour, call, attempt, outcomes, waits,
                   log, result, fmt, score, traffic,
                   gps, report, roads>>

TaskAttemptReturns(i, p) ==
    LET fr == Locals(tasks, i)
    IN  /\ LoopFree(i)
        /\ fr.pc = "attempt"
        /\ p \in Payloads(Lookup(tools, fr.name), fr.call)
        /\ \E next \in FrameResumed(fr, Append(fr.log,
                                  FrameFinished(fr, NoExc, p, fr.outcomes))) :
              TaskBecomes(i, next, Append(Answers(i), [exc |-> NoExc, payload |-> p]))
        /\ UNCHANGED <<tools, pc, name, arguments, hour, call, attempt, outcomes,
                       waits, log, result, fmt, score, traffic,
                   gps, report, roads>>

TaskAttemptRetried(i, e) ==
    LET fr == Locals(tasks, i)
    IN  /\ LoopFree(i)
        /\ fr.pc = "attempt"
        /\ ExternalCalls(Lookup(tools, fr.name))[fr.call].retry
        /\ RetryIfExceptionType(e)
        /\ ~StopNow(fr.attempt)
        /\ TaskBecomes(i, [fr EXCEPT !.pc = "backoff",
                                     !.outcomes = Append(@, e.type),
                                     !.waits = Append(@, WaitExponential(fr.attempt))],
                       Append(Answers(i), [exc |-> e, payload |-> NoPayload]))
        /\ UNCHANGED <<tools, pc, name, arguments, hour, call, attempt, outcomes,
                       waits, log, result, fmt, score, traffic,
                   gps, report, roads>>

TaskAttemptRaises(i, e) ==
    LET fr == Locals(tasks, i)
        wrapped == ExternalCalls(Lookup(tools, fr.name))[fr.call].retry
                      /\ RetryIfExceptionType(e)
    IN  /\ LoopFree(i)
        /\ fr.pc = "attempt"
        /\ wrapped => StopNow(fr.attempt)
        /\ \E next \in FrameResumed(fr, Append(fr.log,
                                  FrameFinished(fr, IF wrapped THEN RetryError ELSE e,
                                                NoPayload, Append(fr.outcomes, e.type)))) :
              TaskBecomes(i, next, Append(Answers(i), [exc |-> e, payload |-> NoPayload]))
        /\ UNCHANGED <<tools, pc, name, arguments, hour, call, attempt, outcomes,
                       waits, log, result, fmt, score, traffic,
                   gps, report, roads>>

TaskBackoffElapsed(i) ==
    LET fr == Locals(tasks, i)
    IN  /\ LoopFree(i)
        /\ fr.pc = "backoff"
        /\ TaskBecomes(i, [fr EXCEPT !.pc = "attempt", !.attempt = @ + 1], Answers(i))
        /\ UNCHANGED <<tools, pc, name, arguments, hour, call, attempt, outcomes,
                       waits, log, result, fmt, score, traffic,
                   gps, report, roads>>

TaskResponded(i) ==
    /\ LoopFree(i)
    /\ Locals(tasks, i).pc = "done"
    /\ tasks' = [tasks EXCEPT ![i] = IdleTask]
    /\ UNCHANGED <<tools, pc, name, arguments, hour, call, attempt, outcomes, waits,
                   log, result, fmt, score, traffic,
                   gps, report, roads>>

ConcInit ==
    /\ tools = ServerTools
    /\ Idle
    /\ fmt = FmtIdle
    /\ score = ScoreIdle
    /\ traffic = TrafficIdle
    /\ tasks = [i \in Tasks |-> IdleTask]
    /\ gps = GpsIdle
    /\ report = ReportIdle
    /\ roads = RoadsIdle

ConcNext ==
    \E i \in Tasks :
        \/ \E n \in ConcNames : \E a \in [ArgNames(n) -> ConcArgKinds] : TaskCallTool(i, n, a)
        \/ \E p \in {OkPayload, EmptyPayload} : TaskAttemptReturns(i, p)
        \/ \E e \in ConcExceptions : TaskAttemptRetried(i, e)
        \/ \E e \in ConcExceptions : TaskAttemptRaises(i, e)
        \/ TaskBackoffElapsed(i)
        \/ TaskResponded(i)

ConcSpec == ConcInit /\ [][ConcNext]_vars

----------------------------------------------------------------------------
(* TraceSpec: one run of GPSTraceAnalyzer.analyze_trace on every trace, with
   the two tools' answers chosen freely *)

TraceInit ==
    /\ tools = ServerTools
    /\ Idle
    /\ fmt = FmtIdle
    /\ score = ScoreIdle
    /\ traffic = TrafficIdle
    /\ tasks = NoTasks
    /\ report = ReportIdle
    /\ roads = RoadsIdle
    /\ gps \in [phase : {"snapping"}, gps_trace : GpsTraces, snapped_points : {<< >>},
                requests : {<< >>}, entries : {<< >>}, report : {Null}]

\* analyze_trace resumed with the result of snap_tool.execute: it returns
\* the error report, or calls speed_tool.execute with the distinct place ids
SnapToRoadsReturns(snap_result) ==
    /\ gps.phase = "snapping"
    /\ IF snap_result.status # "success"
       THEN gps' = [gps EXCEPT !.phase = "returned", !.report = SnapFailedReport]
       ELSE gps' = [gps EXCEPT !.phase = "limits",
                               !.snapped_points = snap_result.data.snapped_points,
                               !.requests = Append(@, SpeedRequest(snap_result.data.snapped_points))]
    /\ UNCHANGED <<tools, pc, name, arguments, hour, call, attempt, outcomes, waits,
                   log, result, fmt, score, traffic, tasks, report, roads>>

\* analyze_trace resumed with the result of speed_tool.execute: it returns
\* the error report or the report with the violations
SpeedLimitsReturns(speed_result) ==
    /\ gps.phase = "limits"
    /\ IF speed_result.status # "success"
       THEN gps' = [gps EXCEPT !.phase = "returned", !.report = SpeedFailedReport]
       ELSE gps' = [gps EXCEPT !.phase = "returned",
                               !.entries = speed_result.data.speed_limits,
                               !.report = TraceReport(gps.gps_trace, gps.snapped_points,
                                                      speed_result.data.speed_limits)]
    /\ UNCHANGED <<tools, pc, name, arguments, hour, call, attempt, outcomes, waits,
                   log, result, fmt, score, traffic, tasks, report, roads>>

TraceNext ==
    \/ \E r \in SnapResults : SnapToRoadsReturns(r)
    \/ \E r \in SpeedResults : SpeedLimitsReturns(r)

TraceSpec == TraceInit /\ [][TraceNext]_vars

----------------------------------------------------------------------------
(* ReportSpec: the compliance score and the recommendations of every list
   of violations *)

ReportInit ==
    /\ tools = ServerTools
    /\ Idle
    /\ fmt = FmtIdle
    /\ score = ScoreIdle
    /\ traffic = TrafficIdle
    /\ tasks = NoTasks
    /\ gps = GpsIdle
    /\ roads = RoadsIdle
    /\ \E in \in ReportInputs :
          report = [phase |-> "inputs", trace_length |-> in.trace_length,
                    violations |-> in.violations]

\* the two entries of the report dict computed from the violations
BuildReport ==
    /\ report.phase = "inputs"
    /\ report' = [phase |-> "reported", trace_length |-> report.trace_length,
                  violations |-> report.violations,
                  compliance_score |->
                      CalculateComplianceScore(report.trace_length, report.violations),
                  recommendations |-> GenerateRecommendations(report.violations)]
    /\ UNCHANGED <<tools, pc, name, arguments, hour, call, attempt, outcomes, waits,
                   log, result, fmt, score, traffic, tasks, gps, roads>>

ReportNext == BuildReport

ReportSpec == ReportInit /\ [][ReportNext]_vars

----------------------------------------------------------------------------
(* RoadsSpec: one value returned by the client's speed_limits, read by
   RouteSafetyTool.execute and by SpeedLimitsTool.execute *)

Unread == [status |-> "unread"]

RoadsInit ==
    /\ tools = ServerTools
    /\ Idle
    /\ fmt = FmtIdle
    /\ score = ScoreIdle
    /\ traffic = TrafficIdle
    /\ tasks = NoTasks
    /\ gps = GpsIdle
    /\ report = ReportIdle
    /\ roads \in [phase : {"response"}, response : SpeedLimitsResponses,
                  road : {Unread}, envelope : {Unread}]

\* route-safety reads the response inside its inner try
SafetyReadsLimits ==
    /\ roads.phase = "response"
    /\ roads.road = Unread
    /\ roads' = [roads EXCEPT !.road = SafetyRoadOutcome(roads.response)]
    /\ UNCHANGED <<tools, pc, name, arguments, hour, call, attempt, outcomes, waits,
                   log, result, fmt, score, traffic, tasks, gps, report>>

\* get_speed_limits reads the response and returns its envelope
SpeedLimitsToolReads ==
    /\ roads.phase = "response"
    /\ roads.envelope = Unread
    /\ roads' = [roads EXCEPT !.envelope = SpeedLimitsEnvelope(roads.response)]
    /\ UNCHANGED <<tools, pc, name, arguments, hour, call, attempt, outcomes, waits,
                   log, result, fmt, score, traffic, tasks, gps, report>>

RoadsNext == SafetyReadsLimits \/ SpeedLimitsToolReads

RoadsSpec == RoadsInit /\ [][RoadsNext]_vars

----------------------------------------------------------------------------
(* Properties *)

Known == Lookup(tools, name) # "<no tool>"

\* C1: every envelope built by _format_response, whatever its data, status
\* and error arguments, holds exactly one of the keys 'data' and 'error',
\* with 'data' present iff status is "success" and 'error' present iff
\* status is "error"
C1_EnvelopeConsistent ==
    fmt.phase = "returned" =>
        LET r == fmt.response
        IN  /\ HasKey(r, "data") # HasKey(r, "error")
            /\ HasKey(r, "data") <=> r.status = "success"
            /\ HasKey(r, "error") <=> r.status = "error"

\* C2: for a registered tool name call_tool never raises, and an exception
\* that reaches the dispatcher (raised by execute or by the serialisation of
\* its result) becomes the envelope {status "error", tool: the requested
\* name, error: the exception's message}
C2_DispatcherNeverRaises ==
    (pc = "done" /\ Known) =>
        /\ result.form = "json"
        /\ result.caught # NoExc =>
              result.env = [status |-> "error", tool |-> name, error |-> result.caught.msg]

C2_Witness == pc = "done" /\ Known /\ result.form = "json" /\ result.caught # NoExc

\* C3: for a name that matches no registered tool, call_tool returns an
\* error envelope {status "error", tool, error} whose message names the
\* unknown name, and no external call is made
C3_UnknownToolEnvelope ==
    (pc = "done" /\ ~Known) =>
        /\ log = << >>
        /\ result.form = "json"
        /\ result.env.status = "error"
        /\ result.env.tool = name
        /\ HasKey(result.env, "error")
        /\ \E i \in DOMAIN result.env.error : result.env.error[i] = name

\* execute failed: an argument was rejected before the first call, an
\* external call raised into the outer except clauses, or the first call
\* returned the empty result that the tool reports as an error
ExecuteFailed ==
    \/ PreCallException(Tool, arguments) # NoExc
    \/ /\ log # << >>
       /\ \/ log[Len(log)].exc # NoExc /\ ~SafetyInnerExcept(Tool, Len(log))
          \/ log[Len(log)].payload.kind = "empty" /\ EmptyIsError(Tool, Len(log))

\* C4: every failure of a tool's execute (missing argument, API error,
\* transport error after the retries, empty result, unexpected exception,
\* also one with an empty message) yields an envelope with status "error"
\* and a non-empty error string
C4_FailureHasErrorText ==
    (pc = "done" /\ Known /\ ExecuteFailed) =>
        /\ result.form = "json"
        /\ result.env.status = "error"
        /\ HasKey(result.env, "error")
        /\ result.env.error # << >>
        /\ result.env.error # None

AllTransport(types) == \A j \in DOMAIN types : types[j] = "TransportError"

\* the finished calls through _execute_with_retry whose every attempt failed
\* with a transport error
ExhaustedCalls ==
    { i \in DOMAIN log : log[i].retry /\ log[i].exc # NoExc /\ AllTransport(log[i].outcomes) }

\* C5 as stated: a call through _execute_with_retry that fails with a
\* transport error on every attempt is attempted exactly 3 times and no
\* more, and the calling tool then returns an error envelope
C5_ThreeAttemptsThenError ==
    /\ attempt <= 3
    /\ \A i \in ExhaustedCalls :
          /\ log[i].attempts = 3
          /\ Len(log[i].outcomes) = 3
          /\ pc = "done" => (result.form = "json" /\ result.env.status = "error")

\* C5 as amended: exactly 3 attempts and no more; the calling tool then
\* returns an error envelope, except that route-safety absorbs the failure
\* of its snap-to-roads and speed-limits calls into a success envelope with
\* road_risk "Unknown"
C5_ThreeAttemptsThenErrorOrDegrade ==
    /\ attempt <= 3
    /\ \A i \in ExhaustedCalls :
          /\ log[i].attempts = 3
          /\ Len(log[i].outcomes) = 3
          /\ pc = "done" =>
                /\ result.form = "json"
                /\ IF Tool = Safety /\ i >= 2
                   THEN /\ result.env.status = "success"
                        /\ result.env.data.road_risk = "Unknown"
                   ELSE /\ result.env.status = "error"
                        /\ HasKey(result.env, "error")

C5_Witness ==
    /\ pc = "done"
    /\ Tool = "geocode_address"
    /\ ExhaustedCalls = {1}
    /\ log[1].attempts = 3
    /\ result.env.status = "error"

\* the finished calls whose first attempt raised an API error
ApiFailedCalls ==
    { i \in DOMAIN log : log[i].outcomes # << >> /\ log[i].outcomes[1] = "ApiError" }

NoApiErrorRetried == \A j \in DOMAIN outcomes : outcomes[j] # "ApiError"

\* C6 as stated: an API error on the first attempt of an external call is
\* not retried (1 attempt, no wait), and the tool, whichever it is, returns
\* an error envelope with its own name and a message that contains the
\* upstream status string
C6_ApiErrorNotRetried ==
    /\ NoApiErrorRetried
    /\ \A i \in ApiFailedCalls :
          /\ log[i].attempts = 1
          /\ log[i].waits = << >>
          /\ pc = "done" =>
                /\ result.form = "json"
                /\ result.env.status = "error"
                /\ result.env.tool = Tool
                /\ HasKey(result.env, "error")
                /\ \E s \in ApiStatuses :
                      /\ log[i].exc = ApiError(s)
                      /\ \E j \in DOMAIN result.env.error : result.env.error[j] = s

\* C6 as amended: 1 attempt and no wait; the tool returns the error
\* envelope with its name and the upstream status string, except that
\* route-safety absorbs an API error of its snap-to-roads and speed-limits
\* calls into a success envelope with road_risk "Unknown"
C6_ApiErrorNotRetriedOrDegrade ==
    /\ NoApiErrorRetried
    /\ \A i \in ApiFailedCalls :
          /\ log[i].attempts = 1
          /\ log[i].waits = << >>
          /\ \E s \in ApiStatuses : log[i].exc = ApiError(s)
          /\ pc = "done" =>
                /\ result.form = "json"
                /\ result.env.tool = Tool
                /\ IF Tool = Safety /\ i >= 2
                   THEN /\ result.env.status = "success"
                        /\ result.env.data.road_risk = "Unknown"
                   ELSE /\ result.env.status = "error"
                        /\ HasKey(result.env, "error")
                        /\ \E j \in DOMAIN result.env.error :
                              log[i].exc = ApiError(result.env.error[j])

C6_Witness ==
    /\ pc = "done"
    /\ Tool = "snap_to_roads"
    /\ ApiFailedCalls = {1}
    /\ log[1].exc = ApiError("OVER_QUERY_LIMIT")
    /\ result.env.status = "error"
    /\ result.env.error = <<"OVER_QUERY_LIMIT">>

\* the wait before retry k as the policy states it:
\* min(max_wait, base_wait * 2^(k-1)) with base 1, a 1-unit floor and a
\* 10-unit ceiling
PolicyWait(k) == Min(10, Max(1, 1 * Pow2(k - 1)))

WaitsAsPolicy(w) ==
    \A k \in DOMAIN w :
        /\ w[k] = PolicyWait(k)
        /\ w[k] <= 10
        /\ k > 1 => w[k] > w[k - 1]

\* C7: the waits between the attempts of _execute_with_retry are strictly
\* increasing, never above 10, and the wait before retry k is
\* min(max_wait, base_wait * 2^(k-1)) from a 1-unit floor: 1 then 2
C7_WaitsGrowFromOne ==
    /\ WaitsAsPolicy(waits)
    /\ \A i \in DOMAIN log : WaitsAsPolicy(log[i].waits)

\* a required argument of the invocation is missing or malformed
BadRequiredArgument ==
    \E i \in DOMAIN RequiredArgs(Tool) : arguments[RequiredArgs(Tool)[i]] # "ok"

\* C8: when a required argument is missing or malformed, execute returns an
\* error envelope and makes no external call and no retry
C8_RejectedBeforeAnyCall ==
    (pc # "idle" /\ Known /\ BadRequiredArgument) =>
        /\ pc = "done"
        /\ log = << >>
        /\ result.form = "json"
        /\ result.env.status = "error"

\* C9: safety_score = traffic_sub*4 + road_sub*4 + time_sub*2 with
\* traffic_sub 4 for a ratio > 1.4, 7 for > 1.1, else 10 (duration 0 gives
\* 10), time_sub 6 for an hour < 6 or > 20, else 10; risk_level "High"
\* below 60, "Moderate" below 80, else "Low"; ratio 1.5, limit 120, hour 2
\* gives 52 and "High"; ratio 1.05, limit 50, hour 12 gives 96 and "Low"
C9_SafetyScoreFormula ==
    score.phase = "assessed" =>
        LET leg == score.leg
            a == score.assessment
            in_traffic == IF leg.duration_in_traffic = Absent
                          THEN leg.duration ELSE leg.duration_in_traffic
            traffic_sub == IF leg.duration = 0 THEN 10
                           ELSE IF 10 * in_traffic > 14 * leg.duration THEN 4
                           ELSE IF 10 * in_traffic > 11 * leg.duration THEN 7
                           ELSE 10
            road_sub == CASE a.road_risk = "High Speed" -> 6
                          [] a.road_risk = "Moderate Speed" -> 8
                          [] a.road_risk = "Low Speed" -> 9
                          [] OTHER -> 5
            time_sub == IF score.hour < 6 \/ score.hour > 20 THEN 6 ELSE 10
            total == traffic_sub * 4 + road_sub * 4 + time_sub * 2
        IN  /\ a.safety_score = 10 * total
            /\ a.risk_level = (IF total < 60 THEN "High"
                               ELSE IF total < 80 THEN "Moderate" ELSE "Low")
            /\ ( /\ leg = [duration |-> 1000, duration_in_traffic |-> 1500]
                 /\ score.road = RoadLimits(<<120>>)
                 /\ score.hour = 2 )
                  => (a.safety_score = 520 /\ a.risk_level = "High")
            /\ ( /\ leg = [duration |-> 1000, duration_in_traffic |-> 1050]
                 /\ score.road = RoadLimits(<<50>>)
                 /\ score.hour = 12 )
                  => (a.safety_score = 960 /\ a.risk_level = "Low")

C9_Witness ==
    /\ score.phase = "assessed"
    /\ score.leg = [duration |-> 1000, duration_in_traffic |-> 1500]
    /\ score.road = RoadLimits(<<120>>)
    /\ score.hour = 2
    /\ score.assessment.safety_score = 520
    /\ score.assessment.risk_level = "High"

\* route-safety got its route and its road lookup then raised
RoadLookupRaised ==
    /\ pc = "done"
    /\ Tool = Safety
    /\ Len(log) >= 2
    /\ log[1].exc = NoExc
    /\ log[Len(log)].exc # NoExc

\* C10: when the directions call succeeded and the snap-to-roads or the
\* speed-limits call then raises (API error, transport error after the
\* retries, or other), route-safety still returns status "success" with
\* road_risk "Unknown", road sub-score 5.0 and max_speed_limit_kmh null, and
\* the traffic and time factors are those of the leg and the hour
C10_RoadLookupDegrades ==
    RoadLookupRaised =>
        LET leg == log[1].payload.leg
        IN  /\ result.form = "json"
            /\ result.env.status = "success"
            /\ HasKey(result.env, "data")
            /\ result.env.data.road_risk = "Unknown"
            /\ result.env.data.max_speed_limit_kmh = Absent
            /\ result.env.data.traffic_risk = TrafficRisk(leg)
            /\ result.env.data.time_risk = TimeRisk(hour)
            /\ result.env.data.safety_score =
                  Round1(TrafficScore(leg) * 4 + 500 * 4 + TimeScore(hour) * 2)

C10_Witness ==
    /\ RoadLookupRaised
    /\ Len(log) = 3
    /\ log[3].exc = RetryError
    /\ result.env.status = "success"
    /\ result.env.data.road_risk = "Unknown"

\* the tools whose first external call is the directions call of a route
RouteTools == {Safety, "get_traffic_conditions", "get_route_elevation_gain"}

\* the directions call of a route tool raised or returned no route
DirectionsFailed ==
    /\ Tool \in RouteTools
    /\ log # << >>
    /\ log[1].exc # CancelledError
    /\ (log[1].exc # NoExc \/ log[1].payload.kind = "empty")

\* C11: when the first (directions) call of route-safety, traffic-conditions
\* or elevation raises or returns no route, the tool returns at once an
\* envelope with status "error" ("No route found" for the empty result), no
\* second external call is made, and the envelope never has status "success"
C11_DirectionsFailureIsError ==
    DirectionsFailed =>
        /\ pc = "done"
        /\ Len(log) = 1
        /\ result.form = "json"
        /\ result.env.tool = Tool
        /\ result.env.status = "error"
        /\ log[1].exc = NoExc =>
              (HasKey(result.env, "error") /\ result.env.error = <<"No route found">>)

C11_Witness ==
    /\ DirectionsFailed
    /\ Tool = Safety
    /\ log[1].exc = NoExc
    /\ result.env.status = "error"
    /\ result.env.error = <<"No route found">>

\* C12: the safety_score of every assessment lies in [0, 100] (tenths: 0 to
\* 1000) for every leg, road-lookup outcome and departure hour, the weighted
\* sum being applied without a clamp
C12_SafetyScoreInRange ==
    score.phase = "assessed" =>
        /\ score.assessment.safety_score >= 0
        /\ score.assessment.safety_score <= 1000
        /\ score.assessment.safety_score =
              Round1(TrafficScore(score.leg) * 4 + SpeedScore(score.road) * 4
                     + TimeScore(score.hour) * 2)

C12_Witness ==
    /\ score.phase = "assessed"
    /\ score.road = RoadFailed
    /\ score.leg.duration = 0
    /\ score.hour = 12
    /\ score.assessment.safety_score = 800

CancelDelivered ==
    \/ \E j \in DOMAIN outcomes : outcomes[j] = "CancelledError"
    \/ log # << >> /\ log[Len(log)].exc = CancelledError

\* C14: once the caller's cancellation is delivered to an invocation inside
\* _execute_with_retry (during an attempt or during the backoff wait), the
\* invocation is over: no backoff wait and no attempt follows it
C14_NoAttemptAfterCancel ==
    /\ [](CancelDelivered => pc = "cancelled")
    /\ [][pc = "cancelled" => (pc' = "idle" /\ attempt' = 0)]_vars

C14_Witness ==
    /\ pc = "cancelled"
    /\ log[Len(log)].retry
    /\ log[Len(log)].outcomes = <<"TransportError", "CancelledError">>
    /\ log[Len(log)].attempts = 1
    /\ log[Len(log)].waits = <<2>>
    /\ result = [form |-> "raised", exc |-> CancelledError]

RECURSIVE RunAlone(_, _, _, _, _)
\* execute of tool t run with no other invocation, from attempt att of its
\* k-th call on, lg being its finished calls and rs the answers still to
\* come: the envelope it returns
RunAlone(t, lg, k, att, rs) ==
    IF rs = << >>
    THEN [status |-> "pending"]
    ELSE LET r == Head(rs)
             retried == /\ r.exc # NoExc
                        /\ ExternalCalls(t)[k].retry
                        /\ RetryIfExceptionType(r.exc)
         IN  IF retried /\ ~StopNow(att)
             THEN RunAlone(t, lg, k, att + 1, Tail(rs))
             ELSE LET done == Append(lg, [exc |-> IF retried THEN RetryError ELSE r.exc,
                                          payload |-> r.payload])
                      step == ToolStep(t, done, ConcHour)
                  IN  IF step.next = "call"
                      THEN RunAlone(t, done, k + 1, 1, Tail(rs))
                      ELSE step.env

\* the envelope execute returns for the inputs in when the invocation is the
\* only one
AloneEnvelope(in) ==
    LET t == Lookup(ServerTools, in.name)
    IN  IF PreCallException(t, in.arguments) # NoExc
        THEN ToolExcept(t, PreCallException(t, in.arguments))
        ELSE RunAlone(t, << >>, 1, 1, in.responses)

\* C15: in every interleaving of the concurrent invocations, each
\* invocation that has returned holds the response it would have got alone
\* from its own name, arguments and external answers, and the registered
\* tool list is the one built at construction
C15_SameAsAlone ==
    /\ tools = ServerTools
    /\ \A i \in Tasks :
          tasks[i].frame.pc = "done" =>
              LET in == tasks[i].inputs
                  r == tasks[i].frame.result
              IN  IF Lookup(ServerTools, in.name) = "<no tool>"
                  THEN r = UnknownTool(in.name)
                  ELSE /\ r.form = "json"
                       /\ r = Respond(in.name, AloneEnvelope(in), r.caught)

\* two invocations of the same tool are both returning: the first got its result
\* after retries while the second failed at once
C15_Witness ==
    /\ tasks[1].frame.pc = "done"
    /\ tasks[2].frame.pc = "done"
    /\ tasks[1].inputs.name = "geocode_address"
    /\ tasks[2].inputs.name = "geocode_address"
    /\ Len(tasks[1].inputs.responses) = 3
    /\ tasks[1].frame.result.env.status = "success"
    /\ tasks[2].inputs.responses = << [exc |-> ApiError("OVER_QUERY_LIMIT"), payload |-> NoPayload] >>
    /\ tasks[2].frame.result.env.status = "error"

\* the invocation is suspended in an external call or in the backoff wait
Blocked(fr) == fr.pc \in {"attempt", "backoff"}

\* the next step of invocation j can be taken now
CanStep(j) ==
    LET fr == tasks[j].frame
    IN  /\ fr.pc = "idle" =>
              \A n \in ConcNames : \A a \in [ArgNames(n) -> ConcArgKinds] :
                 ENABLED TaskCallTool(j, n, a)
        /\ fr.pc = "attempt" => ENABLED TaskAttemptReturns(j, OkPayload)
        /\ fr.pc = "backoff" => ENABLED TaskBackoffElapsed(j)
        /\ fr.pc = "done" => ENABLED TaskResponded(j)

\* C16: while an invocation is suspended in an external call or in its
\* backoff wait, every other invocation can take its next step: start,
\* receive the answer of its own call, end its own wait, return
C16_OthersCanRun ==
    \A i, j \in Tasks : (i # j /\ Blocked(tasks[i].frame)) => CanStep(j)

\* one invocation is in the Places call, outside _execute_with_retry, while
\* another has been through a backoff wait and is in its second attempt
C16_Witness ==
    /\ tasks[1].frame.pc = "attempt"
    /\ tasks[1].frame.name = "search_places"
    /\ tasks[2].frame.pc = "attempt"
    /\ tasks[2].frame.attempt = 2
    /\ CanStep(2)

\* the invocation's arguments are all usable (departure_time may be left out)
ValidInput ==
    \A x \in DOMAIN arguments :
        arguments[x] = "ok" \/ (x = "departure_time" /\ arguments[x] = "missing")

\* the client functions called by the invocation, in order
Fns == [i \in DOMAIN log |-> log[i].fn]

\* the i-th finished call returned a non-empty result
Found(i) == log[i].exc = NoExc /\ log[i].payload.kind # "empty"

\* C17 as stated: for every tool, one execute on valid input performs
\* exactly one logical external call (with its retries), never zero and
\* never two or more distinct calls
C17_ExactlyOneCall ==
    (pc = "done" /\ Known /\ ValidInput) => Len(log) = 1

\* C17 as amended: on valid input every tool makes at least one logical
\* external call, and exactly one except for route-safety (directions, then
\* snap_to_roads if a route was found, then speed_limits if the snap returned
\* points) and elevation (directions, then elevation_along_path if a route
\* was found)
C17_OneCallButRouteTools ==
    (pc = "done" /\ Known /\ ValidInput) =>
        /\ Len(log) >= 1
        /\ Tool \notin {Safety, "get_route_elevation_gain"} => Len(log) = 1
        /\ Tool = Safety =>
              /\ Fns = SubSeq(<<"directions", "snap_to_roads", "speed_limits">>, 1, Len(log))
              /\ (Len(log) >= 2) <=> Found(1)
              /\ (Len(log) = 3) <=> (Found(1) /\ Found(2))
        /\ Tool = "get_route_elevation_gain" =>
              /\ Fns = SubSeq(<<"directions", "elevation_along_path">>, 1, Len(log))
              /\ (Len(log) = 2) <=> Found(1)

C17_Witness ==
    /\ pc = "done"
    /\ Tool = Safety
    /\ ValidInput
    /\ Fns = <<"directions", "snap_to_roads", "speed_limits">>
    /\ log[2].attempts = 2
    /\ result.env.status = "success"

\* the invocation returned an envelope with status "success"
Succeeded ==
    pc = "done" /\ Known /\ result.form = "json" /\ result.env.status = "success"

\* no failed external call lies behind the success envelope, but for the
\* road lookup of route-safety
OnlyRoadLookupAbsorbed ==
    \A i \in DOMAIN log : log[i].exc # NoExc => (Tool = Safety /\ i >= 2)

\* C18 as stated: the failure of route-safety's secondary road lookup is
\* the only partial failure absorbed into a success envelope; in every
\* other tool no failed external call and no failed sub-result lies behind
\* or inside an envelope with status "success"
C18_OnlyRoadLookupInSuccess ==
    Succeeded =>
        /\ OnlyRoadLookupAbsorbed
        /\ \A i \in DOMAIN log : \A j \in DOMAIN log[i].payload.elements :
              log[i].payload.elements[j] = "OK"

\* C18 as amended: the failure of an external call is absorbed into a
\* success envelope only for route-safety's road lookup; the distance
\* matrix reports an element whose status is not "OK" as an entry with that
\* status and an error text, inside its success envelope
C18_RoadLookupAndMatrixEntries ==
    Succeeded =>
        /\ OnlyRoadLookupAbsorbed
        /\ Tool = "calculate_distance_matrix" =>
              LET elements == log[1].payload.elements
                  matrix == result.env.data.matrix
              IN  /\ DOMAIN matrix = DOMAIN elements
                  /\ \A j \in DOMAIN elements :
                        /\ matrix[j].status = elements[j]
                        /\ HasKey(matrix[j], "error") <=> elements[j] # "OK"
                        /\ elements[j] # "OK" =>
                              matrix[j].error[Len(matrix[j].error)] = elements[j]

C18_Witness ==
    /\ Succeeded
    /\ Tool = "calculate_distance_matrix"
    /\ log[1].payload.elements = <<"OK", "NOT_FOUND">>
    /\ result.env.data.matrix[2] =
          [status |-> "NOT_FOUND", error |-> <<"Could not calculate route: ", "NOT_FOUND">>]

\* C19: the server registers exactly 10 tools with pairwise distinct names,
\* the names being search_places, get_place_details, get_directions,
\* geocode_address, reverse_geocode, calculate_distance_matrix,
\* snap_to_roads, get_speed_limits, get_traffic_conditions and
\* calculate_route_safety_factors, and list_tools returns one descriptor per
\* registered tool, in the order of registration
C19_TenToolsListed ==
    /\ Len(tools) = 10
    /\ \A i, j \in DOMAIN tools : i # j => tools[i] # tools[j]
    /\ { tools[i] : i \in DOMAIN tools } =
          {"search_places", "get_place_details", "get_directions", "geocode_address",
           "reverse_geocode", "calculate_distance_matrix", "snap_to_roads",
           "get_speed_limits", "get_traffic_conditions",
           "calculate_route_safety_factors"}
    /\ pc = "listed" =>
          /\ DOMAIN result.tools = DOMAIN tools
          /\ \A i \in DOMAIN tools : result.tools[i].name = tools[i]

\* C20: get_speed_limits never passes 'units' to the client's speed_limits
\* call, its input schema has no 'units' property, the units of every
\* returned entry are those of the response, and count is the number of
\* entries of the response
C20_NoUnitsSent ==
    /\ (pc \in {"attempt", "backoff"} /\ Tool = "get_speed_limits") =>
          "units" \notin ExternalCalls(Tool)[call].kwargs
    /\ (pc = "done" /\ Tool = "get_speed_limits") =>
          \A i \in DOMAIN log : "units" \notin log[i].kwargs
    /\ pc = "listed" =>
          \A i \in DOMAIN result.tools :
             result.tools[i].name = "get_speed_limits" =>
                "units" \notin result.tools[i].properties
    /\ (Succeeded /\ Tool = "get_speed_limits") =>
          LET response == log[1].payload.speedLimits
              data == result.env.data
          IN  /\ data.count = Len(response)
              /\ DOMAIN data.speed_limits = DOMAIN response
              /\ \A j \in DOMAIN response :
                    data.speed_limits[j].units = response[j].units

\* the violations of the report that analyze_trace returned
Reported == gps.phase = "returned" /\ HasKey(gps.report, "violations")

RecordedViolations ==
    IF Reported
    THEN { gps.report.violations[j] : j \in DOMAIN gps.report.violations }
    ELSE {}

\* the recorded speed is more than p percent over the limit
OverBy(v, p) == 100 * (v.vehicle_speed - v.speed_limit) > p * v.speed_limit

\* C21: every recorded violation has vehicle_speed > speed_limit, and with
\* overage_percent = (vehicle_speed - speed_limit)/speed_limit*100 its
\* severity is CRITICAL iff overage_percent > 50, HIGH iff > 25 and <= 50,
\* MEDIUM iff > 10 and <= 25, LOW otherwise; 45 at limit 30 is HIGH
C21_SeverityThresholds ==
    \A v \in RecordedViolations :
        /\ v.vehicle_speed > v.speed_limit
        /\ v.overage_percent.num * v.speed_limit =
              100 * (v.vehicle_speed - v.speed_limit) * v.overage_percent.den
        /\ (v.severity = "CRITICAL") <=> OverBy(v, 50)
        /\ (v.severity = "HIGH") <=> (OverBy(v, 25) /\ ~OverBy(v, 50))
        /\ (v.severity = "MEDIUM") <=> (OverBy(v, 10) /\ ~OverBy(v, 25))
        /\ (v.severity = "LOW") <=> ~OverBy(v, 10)
        /\ (v.vehicle_speed = 45 /\ v.speed_limit = 30) => v.severity = "HIGH"

C21_Witness ==
    /\ Reported
    /\ \E v \in RecordedViolations :
          v.vehicle_speed = 45 /\ v.speed_limit = 30 /\ v.severity = "HIGH"
    /\ \E v \in RecordedViolations :
          v.vehicle_speed = 31 /\ v.speed_limit = 20 /\ v.severity = "CRITICAL"

\* the number of violations of a severity in a list
Count(vs, sev) == Cardinality({ j \in DOMAIN vs : vs[j].severity = sev })

\* N times the score before clamping, for a trace of N points
RawTimes(N, vs) ==
    100 * (N - Len(vs))
    - N * (5 * Count(vs, "CRITICAL") + 3 * Count(vs, "HIGH") + Count(vs, "MEDIUM"))

\* C22: the compliance score is 100*(1 - violations/total_points) minus 5
\* per CRITICAL, 3 per HIGH and 1 per MEDIUM violation, clamped to [0,100];
\* it is never below 0 nor above 100, and an empty trace scores 100
C22_ComplianceScoreClamped ==
    report.phase = "reported" =>
        LET N == report.trace_length
            s == report.compliance_score
            raw == RawTimes(N, report.violations)
        IN  /\ s.den > 0
            /\ 0 <= s.num
            /\ s.num <= 100 * s.den
            /\ N = 0 => s.num = 100 * s.den
            /\ N > 0 =>
                  s.num * N =
                     s.den * (IF raw < 0 THEN 0 ELSE IF raw > 100 * N THEN 100 * N ELSE raw)

C22_Witness ==
    /\ report.phase = "reported"
    /\ report.trace_length = 3
    /\ Len(report.violations) = 3
    /\ Count(report.violations, "CRITICAL") = 2
    /\ RawTimes(report.trace_length, report.violations) < 0
    /\ report.compliance_score.num = 0

\* the index of the first snapped point on segment id
FirstPoint(id) ==
    CHOOSE i \in DOMAIN gps.snapped_points :
        /\ gps.snapped_points[i].place_id = id
        /\ \A m \in 1..(i - 1) : gps.snapped_points[m].place_id # id

\* the analysis went past the snapping
Snapped ==
    \/ gps.phase = "limits"
    \/ gps.phase = "returned" /\ gps.report # SnapFailedReport

\* C23: one analysis issues exactly one speed-limits request once the trace
\* is snapped (and none otherwise), and each distinct segment id of the
\* snapped points occurs in it exactly once, in first-occurrence order
C23_OneLookupPerSegment ==
    /\ Len(gps.requests) <= 1
    /\ Snapped <=> Len(gps.requests) = 1
    /\ Snapped =>
          LET ids == gps.requests[1].place_ids
              pts == gps.snapped_points
          IN  /\ \A i \in DOMAIN pts :
                    Cardinality({ j \in DOMAIN ids : ids[j] = pts[i].place_id }) = 1
              /\ \A j \in DOMAIN ids : \E i \in DOMAIN pts : pts[i].place_id = ids[j]
              /\ \A j, k \in DOMAIN ids : j < k => FirstPoint(ids[j]) < FirstPoint(ids[k])

C23_Witness ==
    /\ Reported
    /\ PlaceIds(gps.snapped_points) = <<"b", "a", "b">>
    /\ gps.requests = << [place_ids |-> <<"b", "a">>, units |-> "MPH"] >>

\* a message is among the recommendations
Recommends(m) == \E j \in DOMAIN report.recommendations : report.recommendations[j] = m

\* C24: with no violation the list is the single positive message;
\* otherwise the CRITICAL message is present iff there is a CRITICAL
\* violation, the training message iff more than 2 HIGH ones, the device
\* message iff more than 5 violations, in that order, and the summary count
\* message is produced only when none of the three applies
C24_SummaryOnlyAsElse ==
    report.phase = "reported" =>
        LET vs == report.violations
            recs == report.recommendations
            critical == Count(vs, "CRITICAL") > 0
            training == Count(vs, "HIGH") > 2
            device == Len(vs) > 5
        IN  IF vs = << >>
            THEN recs = << Excellent >>
            ELSE /\ Recommends(CriticalMessage) <=> critical
                 /\ Recommends(TrainingMessage) <=> training
                 /\ Recommends(DeviceMessage) <=> device
                 /\ ~Recommends(Excellent)
                 /\ \A j, k \in DOMAIN recs :
                       (j < k /\ recs[k] \in {CriticalMessage, TrainingMessage, DeviceMessage})
                          => /\ recs[j] \in {CriticalMessage, TrainingMessage}
                             /\ recs[j] # recs[k]
                             /\ recs[k] # CriticalMessage
                             /\ recs[j] = TrainingMessage => recs[k] = DeviceMessage
                 /\ Recommends(TotalMessage(Len(vs))) <=> ~(critical \/ training \/ device)

\* the calls whose every attempt failed at transport level: a connection
\* failure (TransportError) or a timeout
TransportLevel(types) ==
    types # << >> /\ \A j \in DOMAIN types : types[j] \in {"TransportError", "Timeout"}

\* C25: every tool's external call goes through the retrying invoker: a
\* transport-level failure (timeout or connection failure) of the call of
\* any registered tool, search_places and get_place_details included, is
\* retried up to 3 attempts before an error envelope is returned
C25_EveryCallRetried ==
    \A i \in DOMAIN log :
        /\ log[i].retry
        /\ (log[i].exc # NoExc /\ TransportLevel(log[i].outcomes)) => log[i].attempts = 3

\* C26: the retry policy is the one configured in Settings: whatever the
\* Settings of the server, a call that fails on every attempt is attempted
\* Settings.max_retries times, and every wait lies between
\* Settings.retry_min_wait and Settings.retry_max_wait
C26_PolicyFromSettings ==
    \A s \in SettingsChoices :
        /\ \A i \in ExhaustedCalls : log[i].attempts = s.max_retries
        /\ \A k \in DOMAIN waits :
              s.retry_min_wait <= waits[k] /\ waits[k] <= s.retry_max_wait

\* the speed limits that the road lookup obtained
Obtained(road) ==
    IF road.kind = "limits"
    THEN { road.limits[j] : j \in DOMAIN road.limits } \ {Absent}
    ELSE {}

\* C27: the road risk follows the maximum of the returned speed limits:
\* > 100 "High Speed" (6.0), > 60 and <= 100 "Moderate Speed" (8.0), <= 60
\* "Low Speed" (9.0) when at least one limit was obtained; with no snapped
\* point or no entry with a speed limit it is "Unknown" (5.0) and
\* max_speed_limit_kmh is null
C27_RoadRiskByMaxLimit ==
    score.phase = "assessed" =>
        LET a == score.assessment
            got == Obtained(score.road)
        IN  IF got # {}
            THEN LET m == CHOOSE x \in got : \A y \in got : y <= x
                 IN  /\ m > 100 =>
                           a.road_risk = "High Speed" /\ SpeedScore(score.road) = 600
                     /\ (m > 60 /\ m <= 100) =>
                           a.road_risk = "Moderate Speed" /\ SpeedScore(score.road) = 800
                     /\ m <= 60 =>
                           a.road_risk = "Low Speed" /\ SpeedScore(score.road) = 900
                     /\ m > 0 => a.max_speed_limit_kmh = m
            ELSE /\ a.road_risk = "Unknown"
                 /\ SpeedScore(score.road) = 500
                 /\ a.max_speed_limit_kmh = Absent

C27_Witness ==
    /\ score.phase = "assessed"
    /\ score.road = RoadLimits(<<50, 120>>)
    /\ score.assessment.road_risk = "High Speed"
    /\ score.assessment.max_speed_limit_kmh = 120

\* the place of a risk factor in the fixed order traffic, road, time
FactorRank(f) ==
    CASE f.factor = "Traffic" -> 1
      [] f.factor = "Road" -> 2
      [] f.factor = "Conditions" -> 3

\* C28: in every assessment an empty risk_factors list implies risk_level
\* "Low" (score >= 80); "High" and "Moderate" come with at least one risk
\* factor; risk_factors has at most three entries, in the order traffic,
\* road, time
C28_NoFactorMeansLow ==
    score.phase = "assessed" =>
        LET a == score.assessment
        IN  /\ a.risk_factors = << >> => (a.risk_level = "Low" /\ a.safety_score >= 800)
            /\ a.risk_level \in {"High", "Moderate"} => a.risk_factors # << >>
            /\ Len(a.risk_factors) <= 3
            /\ \A j, k \in DOMAIN a.risk_factors :
                  j < k => FactorRank(a.risk_factors[j]) < FactorRank(a.risk_factors[k])

C28_Witness ==
    /\ score.phase = "assessed"
    /\ score.assessment.risk_factors = << >>
    /\ score.assessment.road_risk = "Unknown"
    /\ score.assessment.safety_score = 800
    /\ score.assessment.risk_level = "Low"

\* the speed limits that get_speed_limits reported
ReportedLimits ==
    IF roads.envelope.status = "success"
    THEN { roads.envelope.data.speed_limits[j].speed_limit :
             j \in DOMAIN roads.envelope.data.speed_limits }
    ELSE {}

\* C29: for one response value, the speed limits route-safety takes its
\* maximum over are the speed limits get_speed_limits reports, and a
\* response that get_speed_limits reports limits for does not leave
\* route-safety at "Unknown"
C29_SameResponseShape ==
    (roads.phase = "response" /\ roads.road # Unread /\ roads.envelope # Unread) =>
        /\ Obtained(roads.road) = ReportedLimits
        /\ ReportedLimits # {} => SpeedRisk(roads.road) # "Unknown"

\* the speed limit the analysis holds for the i-th snapped point: that of
\* the last entry of the speed-limits data for the point's segment, Absent
\* without one
KnownLimit(i) ==
    LET id == gps.snapped_points[i].place_id
        hits == { j \in DOMAIN gps.entries : gps.entries[j].place_id = id }
    IN  IF hits = {} THEN Absent
        ELSE gps.entries[CHOOSE j \in hits : \A k \in hits : k <= j].speed_limit

\* C30: a snapped point is recorded as a violation iff it has a known
\* non-zero speed limit, its index is within the trace and the speed
\* recorded at that index exceeds the limit; no violation has limit 0 (no
\* division by zero), and there are at most as many violations as trace
\* points
C30_ViolationIffOverKnownLimit ==
    Reported =>
        LET vs == gps.report.violations
            pts == gps.snapped_points
            tr == gps.gps_trace
        IN  /\ \A i \in DOMAIN pts :
                  (\E j \in DOMAIN vs : vs[j].point = i)
                  <=> /\ KnownLimit(i) \notin {Absent, 0}
                      /\ i <= Len(tr)
                      /\ tr[i].speed # Absent
                      /\ tr[i].speed > KnownLimit(i)
            /\ \A j \in DOMAIN vs :
                  /\ vs[j].point \in DOMAIN pts
                  /\ vs[j].speed_limit = KnownLimit(vs[j].point)
                  /\ vs[j].vehicle_speed = tr[vs[j].point].speed
                  /\ vs[j].speed_limit # 0
                  /\ vs[j].overage_percent.den # 0
            /\ \A j, k \in DOMAIN vs : j < k => vs[j].point < vs[k].point
            /\ Len(vs) <= Len(tr)

C30_Witness ==
    /\ Reported
    /\ Len(gps.gps_trace) = 2
    /\ Len(gps.snapped_points) = 3
    /\ KnownLimit(1) = 20
    /\ KnownLimit(2) = 0
    /\ KnownLimit(3) = 20
    /\ gps.gps_trace[2].speed = 45
    /\ Len(gps.report.violations) = 1
    /\ gps.report.violations[1].point = 1

====
